---- MODULE Spec2Model ----
(***************************************************************************)
(* The potato inventory service: the in-memory store (storage/storage.go), *)
(* its request-driven callers, and the periodic background workers         *)
(* (background/worker.go) started and stopped by main (main.go).           *)
(*                                                                         *)
(* Every store method is modelled at the granularity of its lock: a call   *)
(* waits for the mutex, enters its critical section, and runs its body     *)
(* (one map read or write per step) before the deferred unlock.            *)
(***************************************************************************)
EXTENDS Integers, Sequences, FiniteSets, TLC

(* ------------------------------ bounds -------------------------------- *)

\* Number of concurrent request goroutines, each issuing one store call.
NumCallers == 2

\* Number of distinct entity versions a request may write.
MaxVersion == 1

\* Number of ticker firings, over all periodic tasks together.
MaxTicks == 2

(* ------------------------- program constants -------------------------- *)

\* background/worker.go:42  counter = 1000
CounterStart == 1000

\* worker.go:218  daysSinceHarvest > 30
PremiumMaxAge == 30

\* worker.go:222  daysSinceHarvest > 60
StandardMaxAge == 60

\* The day number of the clock reading time.Now() (whole days).
Today == 100

Premium == "Premium"
Standard == "Standard"
Economy == "Economy"

Qualities == <<Premium, Standard, Economy>>

\* Position of a quality in the order Premium > Standard > Economy.
Rank(q) == CHOOSE i \in 1..3 : Qualities[i] = q

Varieties == <<"Russet", "Yukon Gold">>

CallerNames == <<"c1", "c2", "c3", "c4">>

Callers == {CallerNames[i] : i \in 1..NumCallers}

Grower == "grower"
RecipeGen == "recipegen"
Degrader == "degrader"
Remover == "remover"

Tasks == {Grower, RecipeGen, Degrader, Remover}

Procs == Callers \cup Tasks

(* ------------------------------ entities ------------------------------ *)

\* Identifiers are a prefix and a number: "p001" is <<"p", 1>>, and the
\* generated fmt.Sprintf("p%d", counter) is <<"p", counter>>.
PotatoIds == {<<"p", 1>>, <<"p", 2>>}

RecipeIds == {<<"r", 1>>}

\* Ages (whole days since harvest) of the sample entities, by version.
AgeOfVersion(v) == <<40, 10, 65>>[(v % 3) + 1]

\* Quality of the sample entities, by version.
QualityOfVersion(v) == <<Premium, Economy, Standard>>[(v % 3) + 1]

\* A potato whose fields all derive from one version number; weights are in
\* grams and prices in cents.
PotatoV(id, v) ==
  [id |-> id,
   variety |-> Varieties[(v % 2) + 1],
   origin |-> <<"Idaho", "Maine">>[(v % 2) + 1],
   weight |-> 200 + 100 * v,
   quality |-> QualityOfVersion(v),
   harvest |-> Today - AgeOfVersion(v),
   price |-> 150 + 50 * v]

RecipeV(id, v) ==
  [id |-> id,
   name |-> <<"Loaded Baked Potato", "Creamy Potato Soup">>[(v % 2) + 1],
   variety |-> Varieties[(v % 2) + 1],
   cookingTime |-> 20 + v,
   difficulty |-> <<"Easy", "Medium", "Hard">>[(v % 3) + 1],
   ingredients |-> <<"potatoes", "Salt and pepper">>,
   instructions |-> <<"Prepare all ingredients", "Serve hot and enjoy">>,
   servings |-> 2 + v]

Versions == 1..MaxVersion

(* ------------------------------- state -------------------------------- *)

VARIABLES
  potatoes,   \* InMemoryStorage.potatoes: map id -> Potato
  recipes,    \* InMemoryStorage.recipes: map id -> Recipe
  mu,         \* the state of each sync.RWMutex of the store
  ph,         \* per goroutine: where it is in its current store call
  call,       \* per goroutine: the store call it is making
  found,      \* per goroutine: the `exists` local of Update/Delete
  ret,        \* per goroutine: what its last store call returned
  store0,     \* the potatoes map when the concurrent calls started
  tpc,        \* per background task: its position in its loop
  ticks,      \* per background task: ticks taken so far
  snap,       \* per background task: the slice GetAllPotatoes returned
  idx,        \* per background task: loop index into snap
  nrem,       \* removeRandomPotatoes: numToRemove
  passes,     \* the potatoes map as it was at the end of each degrader pass
  counter,    \* background.counter
  tmp,        \* per generator: the value of counter it loaded
  life        \* main: "running", "stopping" (ctx done) or "exited"

storeVars == <<potatoes, recipes, mu, ph, call, found, ret>>

taskVars == <<tpc, ticks, snap, idx, nrem, passes, counter, tmp>>

\* What no store method touches.
outside == <<store0, tpc, ticks, snap, idx, nrem, passes, counter, tmp, life>>

vars == <<potatoes, recipes, mu, ph, call, found, ret, store0,
          tpc, ticks, snap, idx, nrem, passes, counter, tmp, life>>

(* ----------------------------- map helpers ---------------------------- *)

\* An assignment that leaves a key that is present alone.
PutIfAbsent(m, k, v) ==
  [x \in (DOMAIN m) \cup {k} |-> IF x \in DOMAIN m THEN m[x] ELSE v]

\* m[k] = v of a Go map.
Put(m, k, v) == [x \in (DOMAIN m) \cup {k} |-> IF x = k THEN v ELSE m[x]]

\* delete(m, k) of a Go map.
Remove(m, k) == [x \in (DOMAIN m) \ {k} |-> m[x]]

EmptyMap == [x \in {} |-> 0]

\* The slices a `for _, v := range m` can build: every order of m's values.
RangeOrders(m) ==
  {s \in [1..Cardinality(DOMAIN m) -> DOMAIN m] :
     \A i, j \in 1..Cardinality(DOMAIN m) : i # j => s[i] # s[j]}

ValuesIn(m, order) == [i \in 1..Len(order) |-> m[order[i]]]

(* ------------------------------ the lock ------------------------------ *)

PotatoKind == "potato"
RecipeKind == "recipe"

WriterCalls == {"AddPotato", "UpdatePotato", "DeletePotato", "AddRecipe"}

ReaderCalls == {"GetPotato", "GetAllPotatoes", "GetPotatoesByVariety",
                "GetRecipe", "GetAllRecipes", "GetRecipesByVariety"}

PotatoCalls == {"AddPotato", "UpdatePotato", "DeletePotato",
                "GetPotato", "GetAllPotatoes", "GetPotatoesByVariety"}

KindOf(name) == IF name \in PotatoCalls THEN PotatoKind ELSE RecipeKind

\* A store with one mutex per entity kind.
MuPerKind(kind) == kind

\* The mutex a method on an entity kind locks: every method uses s.mu.
MuOf(kind) == "mu"

Mutexes == {MuOf(PotatoKind), MuOf(RecipeKind)}

Unlocked == [w |-> FALSE, r |-> 0]

\* Lock() is granted at once, whatever the mutex state.
LockAlways(m) == TRUE

\* Lock() that waits for the writer but not for the readers.
LockIgnoringReaders(m) == ~m.w

\* sync.RWMutex.Lock() is granted when no writer and no reader holds it.
LockOK(m) == ~m.w /\ m.r = 0

\* RLock() is granted at once, whatever the mutex state.
RLockAlways(m) == TRUE

\* sync.RWMutex.RLock() is granted when no writer holds it (that a waiting
\* writer also holds new readers back narrows the schedules, not the
\* states a holder can see).
RLockOK(m) == ~m.w

NoCall == [name |-> "none"]

NoRet == [err |-> "none"]

Nil == "nil"
ErrNotFound == "ErrNotFound"
ErrRecipeNotFound == "ErrRecipeNotFound"

InCS == {"cs", "chk"}

\* The process has not exited: its goroutines still run.
Alive == life # "exited"

MuOfCall(p) == MuOf(KindOf(call[p].name))

\* Whether the mutex would let p's pending call in now.
CanAcquire(p) ==
  IF call[p].name \in WriterCalls THEN LockOK(mu[MuOfCall(p)])
                                  ELSE RLockOK(mu[MuOfCall(p)])

\* s.mu.Lock() / s.mu.RLock(): the first statement of every method.
Acquire(p) ==
  /\ Alive
  /\ ph[p] = "wait"
  /\ CanAcquire(p)
  /\ mu' = [mu EXCEPT ![MuOfCall(p)] =
              IF call[p].name \in WriterCalls
                THEN [@ EXCEPT !.w = TRUE]
                ELSE [@ EXCEPT !.r = @ + 1]]
  /\ ph' = [ph EXCEPT ![p] = "cs"]
  /\ UNCHANGED <<potatoes, recipes, call, found, ret, outside>>

\* A method that returns without unlocking.
StillHeld(p) == mu

\* The deferred s.mu.Unlock() / s.mu.RUnlock().
Released(p) ==
  [mu EXCEPT ![MuOfCall(p)] =
     IF call[p].name \in WriterCalls
       THEN [@ EXCEPT !.w = FALSE]
       ELSE [@ EXCEPT !.r = @ - 1]]

Return(p, r) ==
  /\ Alive
  /\ ret' = [ret EXCEPT ![p] = r]
  /\ ph' = [ph EXCEPT ![p] = "ret"]
  /\ mu' = Released(p)
  /\ UNCHANGED <<call, found, outside>>

(* --------------------------- potato methods --------------------------- *)

\* An AddPotato on a store that keeps both kinds in one map.
AddPotatoOneMap(p) ==
  /\ ph[p] = "cs"
  /\ call[p].name = "AddPotato"
  /\ potatoes' = Put(potatoes, call[p].ent.id, call[p].ent)
  /\ recipes' = Remove(recipes, call[p].ent.id)
  /\ Return(p, [err |-> Nil])

\* AddPotato: s.potatoes[potato.ID] = potato; return nil
AddPotatoBody(p) ==
  /\ ph[p] = "cs"
  /\ call[p].name = "AddPotato"
  /\ potatoes' = Put(potatoes, call[p].ent.id, call[p].ent)
  /\ Return(p, [err |-> Nil])
  /\ UNCHANGED recipes

\* The map lookup `_, exists := s.potatoes[id]`.
Exists(m, id) == id \in DOMAIN m

PotatoLookup(p) ==
  /\ Alive
  /\ ph[p] = "cs"
  /\ call[p].name \in {"UpdatePotato", "DeletePotato"}
  /\ found' = [found EXCEPT ![p] = Exists(potatoes, call[p].id)]
  /\ ph' = [ph EXCEPT ![p] = "chk"]
  /\ UNCHANGED <<potatoes, recipes, mu, call, ret, outside>>

\* The records that come out of copying field by field from record a while
\* record b is being assigned over it.
Mixes(a, b) ==
  {[f \in DOMAIN a |-> IF f \in fs THEN b[f] ELSE a[f]] :
     fs \in SUBSET DOMAIN a}

\* The goroutines other than p that are inside a method body about to
\* assign s.potatoes[k].
Assigning(p, k) ==
  {q \in Procs \ {p} :
     /\ ph[q] \in InCS
     /\ \/ call[q].name = "AddPotato" /\ call[q].ent.id = k
        \/ call[q].name = "UpdatePotato" /\ call[q].id = k}

\* What the struct copy `potato := s.potatoes[k]` made by p can yield: the
\* stored record, or, when the copy races an assignment to the key (two
\* goroutines inside the store at once), any mix of the fields of the two.
Copied(p, k) ==
  {potatoes[k]}
  \cup UNION {Mixes(potatoes[k], call[q].ent) : q \in Assigning(p, k)}

\* The slices p's `for _, potato := range s.potatoes` can build when the
\* range takes the keys in the given order.
Copies(p, order) ==
  {s \in [1..Len(order) -> UNION {Copied(p, k) : k \in DOMAIN potatoes}] :
     \A i \in 1..Len(order) : s[i] \in Copied(p, order[i])}

\* A GetPotato that takes the record out of the map it reads.
GetPotatoTaking(p) ==
  /\ ph[p] = "cs"
  /\ call[p].name = "GetPotato"
  /\ IF Exists(potatoes, call[p].id)
       THEN /\ Return(p, [err |-> Nil, val |-> potatoes[call[p].id]])
            /\ potatoes' = Remove(potatoes, call[p].id)
       ELSE /\ Return(p, [err |-> ErrNotFound])
            /\ potatoes' = potatoes
  /\ UNCHANGED recipes

\* GetPotato: potato, exists := s.potatoes[id]; the value or ErrNotFound.
GetPotatoBody(p) ==
  /\ ph[p] = "cs"
  /\ call[p].name = "GetPotato"
  /\ IF Exists(potatoes, call[p].id)
       THEN \E v \in Copied(p, call[p].id) :
              Return(p, [err |-> Nil, val |-> v])
       ELSE Return(p, [err |-> ErrNotFound])
  /\ UNCHANGED <<potatoes, recipes>>

\* An update that stores without looking the key up first.
UpdateUpsert(m, id, ent, exists) == Put(m, id, ent)

\* UpdatePotato after the lookup: if !exists return ErrNotFound, else
\* s.potatoes[id] = potato.
UpdateStore(m, id, ent, exists) == IF exists THEN Put(m, id, ent) ELSE m

UpdatePotatoBody(p) ==
  /\ ph[p] = "chk"
  /\ call[p].name = "UpdatePotato"
  /\ potatoes' = UpdateStore(potatoes, call[p].id, call[p].ent, found[p])
  /\ Return(p, [err |-> IF found[p] THEN Nil ELSE ErrNotFound])
  /\ UNCHANGED recipes

\* A delete that leaves the key in the map.
DeleteNoop(m, id, exists) == m

\* DeletePotato after the lookup: if !exists return ErrNotFound, else
\* delete(s.potatoes, id).
DeleteStore(m, id, exists) == IF exists THEN Remove(m, id) ELSE m

DeletePotatoBody(p) ==
  /\ ph[p] = "chk"
  /\ call[p].name = "DeletePotato"
  /\ potatoes' = DeleteStore(potatoes, call[p].id, found[p])
  /\ Return(p, [err |-> IF found[p] THEN Nil ELSE ErrNotFound])
  /\ UNCHANGED recipes

\* GetAllPotatoes: a new slice holding a copy of every value, in the
\* order the map range happens to take.
GetAllPotatoesBody(p) ==
  /\ ph[p] = "cs"
  /\ call[p].name = "GetAllPotatoes"
  /\ \E order \in RangeOrders(potatoes) :
       \E vals \in Copies(p, order) :
         Return(p, [err |-> Nil, val |-> vals])
  /\ UNCHANGED <<potatoes, recipes>>

\* A filter that lets every element through.
KeepAll(s, variety) == s

\* The subsequence of s whose elements have the variety.
RECURSIVE FilterVariety(_, _)
FilterVariety(s, variety) ==
  IF s = <<>> THEN <<>>
  ELSE IF Head(s).variety = variety
         THEN <<Head(s)>> \o FilterVariety(Tail(s), variety)
         ELSE FilterVariety(Tail(s), variety)

\* GetPotatoesByVariety: the values of one map range that have the variety.
GetPotatoesByVarietyBody(p) ==
  /\ ph[p] = "cs"
  /\ call[p].name = "GetPotatoesByVariety"
  /\ \E order \in RangeOrders(potatoes) :
       \E vals \in Copies(p, order) :
         Return(p, [err |-> Nil,
                    val |-> FilterVariety(vals, call[p].variety)])
  /\ UNCHANGED <<potatoes, recipes>>

(* --------------------------- recipe methods --------------------------- *)

\* An add that keeps the name of the recipe already stored under the id.
StoreRecipeKeepingName(m, recipe) ==
  IF recipe.id \in DOMAIN m
    THEN Put(m, recipe.id, [recipe EXCEPT !.name = m[recipe.id].name])
    ELSE Put(m, recipe.id, recipe)

\* s.recipes[recipe.ID] = recipe: the recipe is stored under its id,
\* whether or not the id is already a key.
StoreRecipe(m, recipe) == Put(m, recipe.id, recipe)

\* AddRecipe: s.recipes[recipe.ID] = recipe; return nil
AddRecipeBody(p) ==
  /\ ph[p] = "cs"
  /\ call[p].name = "AddRecipe"
  /\ recipes' = StoreRecipe(recipes, call[p].ent)
  /\ Return(p, [err |-> Nil])
  /\ UNCHANGED potatoes

\* GetRecipe: the lookup and the return, both under the read lock.
GetRecipeBody(p) ==
  /\ ph[p] = "cs"
  /\ call[p].name = "GetRecipe"
  /\ IF Exists(recipes, call[p].id)
       THEN Return(p, [err |-> Nil, val |-> recipes[call[p].id]])
       ELSE Return(p, [err |-> ErrRecipeNotFound])
  /\ UNCHANGED <<potatoes, recipes>>

GetAllRecipesBody(p) ==
  /\ ph[p] = "cs"
  /\ call[p].name = "GetAllRecipes"
  /\ \E order \in RangeOrders(recipes) :
       Return(p, [err |-> Nil, val |-> ValuesIn(recipes, order)])
  /\ UNCHANGED <<potatoes, recipes>>

GetRecipesByVarietyBody(p) ==
  /\ ph[p] = "cs"
  /\ call[p].name = "GetRecipesByVariety"
  /\ \E order \in RangeOrders(recipes) :
       Return(p, [err |-> Nil,
                  val |-> FilterVariety(ValuesIn(recipes, order),
                                        call[p].variety)])
  /\ UNCHANGED <<potatoes, recipes>>

\* One step of goroutine p inside a store method.
StoreStep(p) ==
  \/ Acquire(p)
  \/ AddPotatoBody(p)
  \/ PotatoLookup(p)
  \/ GetPotatoBody(p)
  \/ UpdatePotatoBody(p)
  \/ DeletePotatoBody(p)
  \/ GetAllPotatoesBody(p)
  \/ GetPotatoesByVarietyBody(p)
  \/ AddRecipeBody(p)
  \/ GetRecipeBody(p)
  \/ GetAllRecipesBody(p)
  \/ GetRecipesByVarietyBody(p)

(* ------------------------- request goroutines ------------------------- *)

\* The store calls a request can make (through the service layer).
RequestCalls ==
  {[name |-> "AddPotato", ent |-> PotatoV(id, v)] :
     id \in PotatoIds, v \in Versions}
  \cup {[name |-> "UpdatePotato", id |-> id, ent |-> PotatoV(id, v)] :
     id \in PotatoIds, v \in Versions}
  \cup {[name |-> "DeletePotato", id |-> id] : id \in PotatoIds}
  \cup {[name |-> "GetPotato", id |-> id] : id \in PotatoIds}
  \cup {[name |-> "GetAllPotatoes"]}
  \cup {[name |-> "GetPotatoesByVariety", variety |-> Varieties[1]]}
  \cup {[name |-> "AddRecipe", ent |-> RecipeV(id, v)] :
     id \in RecipeIds, v \in Versions}
  \cup {[name |-> "GetRecipe", id |-> id] : id \in RecipeIds}
  \cup {[name |-> "GetAllRecipes"]}
  \cup {[name |-> "GetRecipesByVariety", variety |-> Varieties[1]]}

\* A request handler reaches its store call.
RequestFrom(p, menu) ==
  /\ Alive
  /\ ph[p] = "none"
  /\ \E c \in menu : call' = [call EXCEPT ![p] = c]
  /\ ph' = [ph EXCEPT ![p] = "wait"]
  /\ UNCHANGED <<potatoes, recipes, mu, found, ret, outside>>

Request(p) == RequestFrom(p, RequestCalls)

(* -------------------------- background tasks -------------------------- *)

\* What a task's own step leaves alone besides the store.
StoreIdle == <<potatoes, recipes, mu, found, ret>>

\* A goroutine starts a store call: it stands before the method's Lock.
Issue(p, c) ==
  /\ call' = [call EXCEPT ![p] = c]
  /\ ph' = [ph EXCEPT ![p] = "wait"]

TotalTicks ==
  ticks[Grower] + ticks[RecipeGen] + ticks[Degrader] + ticks[Remover]

\* `for range ticker.C`: the ticker fires and the task's loop body starts.
\* Nothing stops the ticker: it fires as long as the process lives.
TickerFires(t) ==
  /\ Alive
  /\ tpc[t] = "idle"
  /\ TotalTicks < MaxTicks
  /\ ticks' = [ticks EXCEPT ![t] = @ + 1]

\* counter++, first half: load the package variable.
CounterLoad(t) ==
  /\ Alive
  /\ tpc[t] = "load"
  /\ tmp' = [tmp EXCEPT ![t] = counter]
  /\ tpc' = [tpc EXCEPT ![t] = "store"]
  /\ UNCHANGED <<StoreIdle, ph, call, store0, ticks, snap, idx, nrem,
                 passes, counter, life>>

\* counter++, second half: store the incremented value.
CounterStore(t) ==
  /\ Alive
  /\ tpc[t] = "store"
  /\ counter' = tmp[t] + 1
  /\ tpc' = [tpc EXCEPT ![t] = "build"]
  /\ UNCHANGED <<StoreIdle, ph, call, store0, ticks, snap, idx, nrem,
                 passes, tmp, life>>

\* The grower's ticker fires: addRandomPotato begins.
GrowerTick ==
  /\ TickerFires(Grower)
  /\ tpc' = [tpc EXCEPT ![Grower] = "load"]
  /\ UNCHANGED <<StoreIdle, ph, call, store0, snap, idx, nrem, passes,
                 counter, tmp, life>>

\* basePrice by quality, in cents (worker.go:144-149).
BasePrice(q) == IF q = Premium THEN 350 ELSE IF q = Economy THEN 150 ELSE 200

\* Samples of the random draws of addRandomPotato: the indices of the
\* variety and of the quality, the weight in grams (0.20 + [0, 0.40) kg),
\* the price noise in cents ([0, 1.5)) and the harvest offset in days
\* (rand.Intn(14)).
GrowerDraws ==
  {[variety |-> 1, quality |-> 1, weight |-> 200, noise |-> 0, daysAgo |-> 0],
   [variety |-> 2, quality |-> 2, weight |-> 599, noise |-> 149,
    daysAgo |-> 13]}

\* addRandomPotato after counter++: build the potato and call AddPotato.
GrowerBuild ==
  /\ Alive
  /\ tpc[Grower] = "build"
  /\ \E d \in GrowerDraws :
       Issue(Grower,
             [name |-> "AddPotato",
              ent |-> [id |-> <<"p", counter>>,
                       variety |-> Varieties[d.variety],
                       origin |-> "Idaho",
                       weight |-> d.weight,
                       quality |-> Qualities[d.quality],
                       harvest |-> Today - d.daysAgo,
                       price |-> BasePrice(Qualities[d.quality]) + d.noise]])
  /\ tpc' = [tpc EXCEPT ![Grower] = "call"]
  /\ UNCHANGED <<StoreIdle, store0, ticks, snap, idx, nrem, passes,
                 counter, tmp, life>>

\* A generator's store call returned: its loop body ends.
GeneratorDone(t) ==
  /\ Alive
  /\ tpc[t] = "call"
  /\ ph[t] = "ret"
  /\ ph' = [ph EXCEPT ![t] = "none"]
  /\ tpc' = [tpc EXCEPT ![t] = "idle"]
  /\ UNCHANGED <<StoreIdle, call, store0, ticks, snap, idx, nrem, passes,
                 counter, tmp, life>>

\* The recipe generator's ticker fires: addRandomRecipe begins.
RecipeGenTick ==
  /\ TickerFires(RecipeGen)
  /\ tpc' = [tpc EXCEPT ![RecipeGen] = "load"]
  /\ UNCHANGED <<StoreIdle, ph, call, store0, snap, idx, nrem, passes,
                 counter, tmp, life>>

\* Samples of the random draws of addRandomRecipe: cooking time
\* 20 + rand.Intn(60), servings 2 + rand.Intn(6), difficulty index.
RecipeDraws ==
  {[cookingTime |-> 20, servings |-> 2, difficulty |-> "Easy"],
   [cookingTime |-> 79, servings |-> 7, difficulty |-> "Hard"]}

\* addRandomRecipe after counter++: build the recipe and call AddRecipe.
RecipeGenBuild ==
  /\ Alive
  /\ tpc[RecipeGen] = "build"
  /\ \E d \in RecipeDraws :
       Issue(RecipeGen,
             [name |-> "AddRecipe",
              ent |-> [id |-> <<"r", counter>>,
                       name |-> "Loaded Baked Potato",
                       variety |-> Varieties[1],
                       cookingTime |-> d.cookingTime,
                       difficulty |-> d.difficulty,
                       ingredients |-> <<"1 lbs Russet potatoes", "Butter">>,
                       instructions |-> <<"Prepare all ingredients",
                                          "Serve hot and enjoy">>,
                       servings |-> d.servings]])
  /\ tpc' = [tpc EXCEPT ![RecipeGen] = "call"]
  /\ UNCHANGED <<StoreIdle, store0, ticks, snap, idx, nrem, passes,
                 counter, tmp, life>>

\* A task whose loop body starts with potatoes := w.storage.GetAllPotatoes().
FetchTick(t) ==
  /\ TickerFires(t)
  /\ Issue(t, [name |-> "GetAllPotatoes"])
  /\ tpc' = [tpc EXCEPT ![t] = "fetch"]
  /\ UNCHANGED <<StoreIdle, store0, snap, idx, nrem, passes, counter, tmp,
                 life>>

\* int(time.Since(potato.HarvestDate).Hours() / 24)
DaysSinceHarvest(potato) == Today - potato.harvest

\* A degrader that sends an old Premium item straight to Economy.
DegradedSkipping(potato) ==
  IF DaysSinceHarvest(potato) > PremiumMaxAge /\ potato.quality = Premium
    THEN IF DaysSinceHarvest(potato) > StandardMaxAge THEN Economy
                                                       ELSE Standard
  ELSE IF DaysSinceHarvest(potato) > StandardMaxAge
          /\ potato.quality = Standard
    THEN Economy
  ELSE potato.quality

\* A degrader whose thresholds include the 30th and the 60th day.
DegradedFromThreshold(potato) ==
  IF DaysSinceHarvest(potato) >= PremiumMaxAge /\ potato.quality = Premium
    THEN Standard
  ELSE IF DaysSinceHarvest(potato) >= StandardMaxAge
          /\ potato.quality = Standard
    THEN Economy
  ELSE potato.quality

\* The quality degradePotatoQuality gives the item (worker.go:218-226);
\* the item's own quality when neither branch is taken.
Degraded(potato) ==
  IF DaysSinceHarvest(potato) > PremiumMaxAge /\ potato.quality = Premium
    THEN Standard
  ELSE IF DaysSinceHarvest(potato) > StandardMaxAge
          /\ potato.quality = Standard
    THEN Economy
  ELSE potato.quality

\* degradePotatoQuality: GetAllPotatoes returned, the loop starts.
DegraderBegin ==
  /\ Alive
  /\ tpc[Degrader] = "fetch"
  /\ ph[Degrader] = "ret"
  /\ snap' = [snap EXCEPT ![Degrader] = ret[Degrader].val]
  /\ idx' = [idx EXCEPT ![Degrader] = 1]
  /\ ph' = [ph EXCEPT ![Degrader] = "none"]
  /\ tpc' = [tpc EXCEPT ![Degrader] = "loop"]
  /\ UNCHANGED <<StoreIdle, call, store0, ticks, nrem, passes, counter,
                 tmp, life>>

\* The record the degrader passes to UpdatePotato: its snapshot copy of
\* the item with the quality field reassigned.
DegraderUpdate(potato) == [potato EXCEPT !.quality = Degraded(potato)]

\* One iteration of `for _, potato := range potatoes`: an item one of the
\* two branches applies to is written back, any other is skipped.
DegraderLoop ==
  /\ Alive
  /\ tpc[Degrader] = "loop"
  /\ idx[Degrader] <= Len(snap[Degrader])
  /\ LET potato == snap[Degrader][idx[Degrader]] IN
       IF Degraded(potato) # potato.quality
         THEN /\ Issue(Degrader, [name |-> "UpdatePotato", id |-> potato.id,
                                  ent |-> DegraderUpdate(potato)])
              /\ tpc' = [tpc EXCEPT ![Degrader] = "call"]
              /\ UNCHANGED idx
         ELSE /\ idx' = [idx EXCEPT ![Degrader] = @ + 1]
              /\ UNCHANGED <<ph, call, tpc>>
  /\ UNCHANGED <<StoreIdle, store0, ticks, snap, nrem, passes, counter, tmp,
                 life>>

\* A loop that gives up at the first failed update.
AbortOnError(i, err, n) == IF err = Nil THEN i + 1 ELSE n + 1

\* The loop index after a store call of the degrader or the remover: the
\* call's error is dropped (the remover only skips its log line) and the
\* loop goes on with the next item.
NextIndex(i, err, n) == i + 1

\* w.storage.UpdatePotato returned.
DegraderNext ==
  /\ Alive
  /\ tpc[Degrader] = "call"
  /\ ph[Degrader] = "ret"
  /\ ph' = [ph EXCEPT ![Degrader] = "none"]
  /\ idx' = [idx EXCEPT ![Degrader] =
               NextIndex(@, ret[Degrader].err, Len(snap[Degrader]))]
  /\ tpc' = [tpc EXCEPT ![Degrader] = "loop"]
  /\ UNCHANGED <<StoreIdle, call, store0, ticks, snap, nrem, passes,
                 counter, tmp, life>>

\* The range is exhausted: degradePotatoQuality returns.
DegraderEnd ==
  /\ Alive
  /\ tpc[Degrader] = "loop"
  /\ idx[Degrader] > Len(snap[Degrader])
  /\ tpc' = [tpc EXCEPT ![Degrader] = "idle"]
  /\ passes' = Append(passes, potatoes)
  /\ UNCHANGED <<StoreIdle, ph, call, store0, ticks, snap, idx, nrem,
                 counter, tmp, life>>

\* The orders rand.Shuffle can leave a slice in.
Shuffles(s) ==
  {[i \in 1..Len(s) |-> s[f[i]]] :
     f \in {g \in [1..Len(s) -> 1..Len(s)] :
              \A i, j \in 1..Len(s) : i # j => g[i] # g[j]}}

Min(a, b) == IF a < b THEN a ELSE b

\* removeRandomPotatoes: GetAllPotatoes returned. An empty slice ends the
\* pass; otherwise numToRemove = min(1 + rand.Intn(3), len) and the slice
\* is shuffled.
RemoverBegin ==
  /\ Alive
  /\ tpc[Remover] = "fetch"
  /\ ph[Remover] = "ret"
  /\ ph' = [ph EXCEPT ![Remover] = "none"]
  /\ IF Len(ret[Remover].val) = 0
       THEN /\ tpc' = [tpc EXCEPT ![Remover] = "idle"]
            /\ snap' = [snap EXCEPT ![Remover] = <<>>]
            /\ nrem' = 0
            /\ idx' = [idx EXCEPT ![Remover] = 0]
       ELSE /\ \E n \in 1..3 : nrem' = Min(n, Len(ret[Remover].val))
            /\ \E s \in Shuffles(ret[Remover].val) :
                 snap' = [snap EXCEPT ![Remover] = s]
            /\ idx' = [idx EXCEPT ![Remover] = 1]
            /\ tpc' = [tpc EXCEPT ![Remover] = "loop"]
  /\ UNCHANGED <<StoreIdle, call, store0, ticks, passes, counter, tmp, life>>

\* for i := 0; i < numToRemove; i++: DeletePotato(potatoes[i].ID).
RemoverLoop ==
  /\ Alive
  /\ tpc[Remover] = "loop"
  /\ IF idx[Remover] <= nrem
       THEN /\ Issue(Remover, [name |-> "DeletePotato",
                               id |-> snap[Remover][idx[Remover]].id])
            /\ tpc' = [tpc EXCEPT ![Remover] = "call"]
       ELSE /\ tpc' = [tpc EXCEPT ![Remover] = "idle"]
            /\ UNCHANGED <<ph, call>>
  /\ UNCHANGED <<StoreIdle, store0, ticks, snap, idx, nrem, passes, counter,
                 tmp, life>>

\* DeletePotato returned: a nil error is logged, any other is ignored, and
\* the loop goes on.
RemoverNext ==
  /\ Alive
  /\ tpc[Remover] = "call"
  /\ ph[Remover] = "ret"
  /\ ph' = [ph EXCEPT ![Remover] = "none"]
  /\ idx' = [idx EXCEPT ![Remover] = NextIndex(@, ret[Remover].err, nrem)]
  /\ tpc' = [tpc EXCEPT ![Remover] = "loop"]
  /\ UNCHANGED <<StoreIdle, call, store0, ticks, snap, nrem, passes,
                 counter, tmp, life>>

GrowerStep ==
  \/ GrowerTick
  \/ CounterLoad(Grower)
  \/ CounterStore(Grower)
  \/ GrowerBuild
  \/ Acquire(Grower)
  \/ AddPotatoBody(Grower)
  \/ GeneratorDone(Grower)

RecipeGenStep ==
  \/ RecipeGenTick
  \/ CounterLoad(RecipeGen)
  \/ CounterStore(RecipeGen)
  \/ RecipeGenBuild
  \/ Acquire(RecipeGen)
  \/ AddRecipeBody(RecipeGen)
  \/ GeneratorDone(RecipeGen)

DegraderStep ==
  \/ FetchTick(Degrader)
  \/ DegraderBegin
  \/ DegraderLoop
  \/ DegraderNext
  \/ DegraderEnd
  \/ Acquire(Degrader)
  \/ GetAllPotatoesBody(Degrader)
  \/ PotatoLookup(Degrader)
  \/ UpdatePotatoBody(Degrader)

RemoverStep ==
  \/ FetchTick(Remover)
  \/ RemoverBegin
  \/ RemoverLoop
  \/ RemoverNext
  \/ Acquire(Remover)
  \/ GetAllPotatoesBody(Remover)
  \/ PotatoLookup(Remover)
  \/ DeletePotatoBody(Remover)

(* -------------------------------- main -------------------------------- *)

\* SIGINT/SIGTERM: ctx is done and the goroutine of main.go:79-86 calls
\* server.Shutdown. No worker is told: the tickers keep firing.
StopSignal ==
  /\ life = "running"
  /\ life' = "stopping"
  /\ UNCHANGED <<storeVars, store0, taskVars>>

\* ListenAndServe returns ErrServerClosed, main returns and the process
\* exits, ending every goroutine where it stands.
ProcessExit ==
  /\ life = "stopping"
  /\ life' = "exited"
  /\ UNCHANGED <<storeVars, store0, taskVars>>

(* ------------------------------- Init --------------------------------- *)

\* The store contents the concurrent calls start from: any subset of the
\* keys, each holding its seed version.
InitialPotatoes == {[id \in ks |-> PotatoV(id, 0)] : ks \in SUBSET PotatoIds}

InitialRecipes == {[id \in ks |-> RecipeV(id, 0)] : ks \in SUBSET RecipeIds}

InitCommon ==
  /\ mu = [m \in Mutexes |-> Unlocked]
  /\ ph = [p \in Procs |-> "none"]
  /\ call = [p \in Procs |-> NoCall]
  /\ found = [p \in Procs |-> FALSE]
  /\ ret = [p \in Procs |-> NoRet]
  /\ store0 = potatoes
  /\ tpc = [t \in Tasks |-> "idle"]
  /\ ticks = [t \in Tasks |-> 0]
  /\ snap = [t \in Tasks |-> <<>>]
  /\ idx = [t \in Tasks |-> 0]
  /\ nrem = 0
  /\ passes = <<>>
  /\ counter = CounterStart
  /\ tmp = [t \in Tasks |-> 0]
  /\ life = "running"

Init ==
  /\ potatoes \in InitialPotatoes
  /\ recipes \in InitialRecipes
  /\ InitCommon

\* Concurrent request goroutines on the store.
Next ==
  \E p \in Callers :
    \/ Request(p)
    \/ StoreStep(p)

Spec == Init /\ [][Next]_vars

\* The four workers of main.go:43-46 and the shutdown of main.go:79-90.
NextLife ==
  \/ GrowerStep
  \/ RecipeGenStep
  \/ DegraderStep
  \/ RemoverStep
  \/ StopSignal
  \/ ProcessExit

\* The store as the seed leaves it: every sample key holds its seed version.
InitLife ==
  /\ potatoes = [id \in PotatoIds |-> PotatoV(id, 0)]
  /\ recipes = [id \in RecipeIds |-> RecipeV(id, 0)]
  /\ InitCommon

SpecLife == InitLife /\ [][NextLife]_vars

\* The writes a request can race the background tasks with.
RaceCalls ==
  {[name |-> "UpdatePotato", id |-> id, ent |-> PotatoV(id, v)] :
     id \in PotatoIds, v \in Versions}
  \cup {[name |-> "DeletePotato", id |-> id] : id \in PotatoIds}

\* The request goroutine that races the background tasks.
Racer == CallerNames[1]

\* The degrader and the remover running against a concurrent update or
\* delete request.
NextDegrade ==
  \/ RequestFrom(Racer, RaceCalls)
  \/ Acquire(Racer)
  \/ PotatoLookup(Racer)
  \/ UpdatePotatoBody(Racer)
  \/ DeletePotatoBody(Racer)
  \/ DegraderStep
  \/ RemoverStep

SpecDegrade == InitLife /\ [][NextDegrade]_vars

\* Ages around the two thresholds of the degrader.
AgeSamples == {10, 30, 31, 60, 61}

\* Every store content over the sample keys, qualities and ages.
QuietPotatoes ==
  {[id \in ks |-> [PotatoV(id, 0) EXCEPT !.quality = qa[id][1],
                                         !.harvest = Today - qa[id][2]]] :
     ks \in SUBSET PotatoIds,
     qa \in [PotatoIds -> {Premium, Standard, Economy} \X AgeSamples]}

InitQuiet ==
  /\ potatoes \in QuietPotatoes
  /\ recipes = EmptyMap
  /\ InitCommon

\* The degrader alone on a store no one else writes.
SpecQuiet == InitQuiet /\ [][DegraderStep]_vars

(* ======================= properties of the store ====================== *)

PotatoWriters == {"AddPotato", "UpdatePotato", "DeletePotato"}

\* The key a potato call is about; none for the scans and recipe calls.
KeyOf(c) ==
  IF c.name = "AddPotato" THEN {c.ent.id}
  ELSE IF c.name \in {"UpdatePotato", "DeletePotato", "GetPotato"}
    THEN {c.id}
  ELSE {}

\* Callers a and b have both finished a DeletePotato of one key that the
\* store held, and no other caller has a call on that key.
TwoDeletesDone(a, b) ==
  /\ a # b
  /\ ph[a] = "ret" /\ ph[b] = "ret"
  /\ call[a].name = "DeletePotato" /\ call[b].name = "DeletePotato"
  /\ call[a].id = call[b].id
  /\ call[a].id \in DOMAIN store0
  /\ \A c \in Callers \ {a, b} : call[a].id \notin KeyOf(call[c])

\* C1: two concurrent DeletePotato calls on one existing key, with no other
\* operation on that key: exactly one returns nil, the other ErrNotFound,
\* and the key is absent afterwards.
C1_DeleteRace ==
  \A a, b \in Callers :
    TwoDeletesDone(a, b) =>
      /\ {ret[a].err, ret[b].err} = {Nil, ErrNotFound}
      /\ call[a].id \notin DOMAIN potatoes

C1_Witness == \E a, b \in Callers : TwoDeletesDone(a, b)

\* An UpdatePotato of p runs its body (the step from the critical section
\* to the return).
UpdateReturns(p) ==
  /\ call[p].name = "UpdatePotato"
  /\ ph[p] \in InCS
  /\ ph'[p] = "ret"

\* C2: an UpdatePotato whose key is absent when its body runs under the
\* exclusive lock returns ErrNotFound and leaves the map as it was: update
\* never creates a key, whatever DeletePotato did before it.
C2_UpdateNeverCreates ==
  [][\A p \in Callers :
       (UpdateReturns(p) /\ call[p].id \notin DOMAIN potatoes)
         => (ret'[p].err = ErrNotFound /\ potatoes' = potatoes)]_vars

\* An update lost the race against a delete of the same, initially
\* present, key.
C2_Witness ==
  \E p, q \in Callers :
    /\ ph[p] = "ret" /\ call[p].name = "UpdatePotato"
    /\ ret[p].err = ErrNotFound
    /\ call[p].id \in DOMAIN store0
    /\ ph[q] = "ret" /\ call[q].name = "DeletePotato"
    /\ call[q].id = call[p].id /\ ret[q].err = Nil
    /\ call[p].id \notin DOMAIN potatoes

\* The callers that have made a write call on the potatoes.
WritersDone == {p \in Callers : ph[p] = "ret" /\ call[p].name \in PotatoWriters}

\* Every caller is outside the store, and the finished potato writes are
\* on pairwise distinct keys.
DistinctWritesDone ==
  /\ \A p \in Callers : ph[p] \in {"none", "ret"}
  /\ \A p, q \in WritersDone : p # q => KeyOf(call[p]) # KeyOf(call[q])

\* What one write call, alone on its key, leaves under the key and returns.
WriteOutcome(p) ==
  LET c == call[p]
      k == CHOOSE x \in KeyOf(c) : TRUE
  IN  CASE c.name = "AddPotato" ->
             /\ k \in DOMAIN potatoes /\ potatoes[k] = c.ent
             /\ ret[p].err = Nil
        [] c.name = "UpdatePotato" ->
             IF k \in DOMAIN store0
               THEN /\ k \in DOMAIN potatoes /\ potatoes[k] = c.ent
                    /\ ret[p].err = Nil
               ELSE /\ k \notin DOMAIN potatoes
                    /\ ret[p].err = ErrNotFound
        [] c.name = "DeletePotato" ->
             /\ k \notin DOMAIN potatoes
             /\ ret[p].err = IF k \in DOMAIN store0 THEN Nil ELSE ErrNotFound

\* C7: after concurrent Add/Update/Delete calls on pairwise distinct keys,
\* the map is what the calls give when applied one at a time: each written
\* key holds what its one writer left, and every other key is untouched.
C7_NoLostUpdates ==
  DistinctWritesDone =>
    /\ \A p \in WritersDone : WriteOutcome(p)
    /\ \A k \in (DOMAIN store0 \cup DOMAIN potatoes) :
         (\A p \in WritersDone : k \notin KeyOf(call[p]))
           => /\ k \in DOMAIN store0 /\ k \in DOMAIN potatoes
              /\ potatoes[k] = store0[k]

\* Two writers on two keys are done, one of them a successful delete.
C7_Witness ==
  /\ DistinctWritesDone
  /\ Cardinality(WritersDone) >= 2
  /\ \E p \in WritersDone : call[p].name = "DeletePotato" /\ ret[p].err = Nil
  /\ \E p \in WritersDone : call[p].name # "DeletePotato"

\* Goroutine p holds the lock as a writer while q, on the other entity
\* kind, stands before its Lock/RLock.
CrossKindWait(p, q) ==
  /\ p # q
  /\ ph[p] \in InCS
  /\ call[p].name \in WriterCalls
  /\ ph[q] = "wait"
  /\ KindOf(call[p].name) # KindOf(call[q].name)

C9_WriterExcludesAll ==
  \A p, q \in Callers :
    (/\ p # q
     /\ ph[p] \in InCS
     /\ call[p].name \in WriterCalls
     /\ KindOf(call[p].name) = KindOf(call[q].name))
    => ph[q] \notin InCS

\* Two readers of one kind are inside their critical sections together.
C9_Witness ==
  \E p, q \in Callers :
    /\ p # q
    /\ ph[p] \in InCS /\ ph[q] \in InCS
    /\ call[p].name \in ReaderCalls /\ call[q].name \in ReaderCalls
    /\ KindOf(call[p].name) = KindOf(call[q].name)

(* ====================== properties of the degrader ==================== *)

\* The degrader's UpdatePotato runs its body.
DegraderWrites ==
  /\ call[Degrader].name = "UpdatePotato"
  /\ ph[Degrader] \in InCS
  /\ ph'[Degrader] = "ret"

\* The degrader is between two passes, the last pass's snapshot still in
\* snap and the map as that pass left it in the last element of passes.
PassOver == tpc[Degrader] = "idle" /\ Len(passes) >= 1

LastPass == passes[Len(passes)]

\* The racing request was an update of key k that wrote entity e.
RacerWrote(k, e) ==
  /\ call[Racer].name = "UpdatePotato"
  /\ call[Racer].id = k
  /\ call[Racer].ent = e

\* C3: when the degrader's update finds its key deleted, the update returns
\* ErrNotFound and adds nothing to the map (no step of the degrader ever
\* adds a key), and the pass goes on: at its end every snapshot item it
\* had to degrade, if still stored, holds the degrader's write (or a
\* request's later update).
C3_NoResurrection ==
  /\ [][DegraderWrites =>
          /\ DOMAIN potatoes' \subseteq DOMAIN potatoes
          /\ (call[Degrader].id \notin DOMAIN potatoes
                => ret'[Degrader].err = ErrNotFound /\ potatoes' = potatoes)
       ]_vars
  /\ [](PassOver =>
          \A i \in 1..Len(snap[Degrader]) :
            LET item == snap[Degrader][i] IN
              (Degraded(item) # item.quality /\ item.id \in DOMAIN LastPass)
                => \/ LastPass[item.id] = DegraderUpdate(item)
                   \/ RacerWrote(item.id, LastPass[item.id]))

\* The degrader's update of a snapshot item that is not the last one has
\* returned ErrNotFound: the item was deleted after the snapshot.
C3_Witness ==
  /\ tpc[Degrader] = "call"
  /\ ph[Degrader] = "ret"
  /\ ret[Degrader].err = ErrNotFound
  /\ idx[Degrader] < Len(snap[Degrader])
  /\ call[Degrader].id \notin DOMAIN potatoes
  /\ Degraded(snap[Degrader][idx[Degrader] + 1])
       # snap[Degrader][idx[Degrader] + 1].quality

\* C4: every write of the degrader moves the stored quality forward only
\* (Premium -> Standard -> Economy), relative to the quality stored for the
\* key immediately before the write.
C4_ForwardOnly ==
  [][(DegraderWrites /\ call[Degrader].id \in DOMAIN potatoes
                     /\ call[Degrader].id \in DOMAIN potatoes')
       => Rank(potatoes'[call[Degrader].id].quality)
            >= Rank(potatoes[call[Degrader].id].quality)]_vars

OldPremium(potato) ==
  potato.quality = Premium /\ DaysSinceHarvest(potato) > StandardMaxAge

C6_QualityOnly ==
  [][(DegraderWrites /\ call[Degrader].id \in DOMAIN potatoes
                     /\ call[Degrader].id \in DOMAIN potatoes')
       => potatoes'[call[Degrader].id] =
            [potatoes[call[Degrader].id] EXCEPT
               !.quality = potatoes'[call[Degrader].id].quality]]_vars

(* ====================== properties of the shutdown ==================== *)

\* C10: once the stop signal has been observed no periodic task starts a
\* new store call.
C10_NoCallAfterStop ==
  [][life = "stopping" =>
       \A t \in Tasks : ~(ph[t] # "wait" /\ ph'[t] = "wait")]_vars

(* ================== properties of the identifier counter ============== *)

\* The two tasks that draw their identifiers from the package counter.
Generators == {Grower, RecipeGen}

\* The counter values the generated entities carry: those of the entities
\* being handed to the store and those of the generated entities stored.
IssuedBy(t) ==
  LET kind == IF t = Grower THEN "p" ELSE "r"
      held == IF t = Grower THEN DOMAIN potatoes ELSE DOMAIN recipes
  IN  {id[2] : id \in {i \in held : i[1] = kind /\ i[2] > CounterStart}}
      \cup (IF tpc[t] = "call" THEN {call[t].ent.id[2]} ELSE {})

\* C11: the identifier counter shared by the grower and the recipe
\* generator never decreases, and no two generated entities, across both
\* tasks, are given the same counter value.
C11_CounterUnique ==
  /\ [][counter' >= counter]_vars
  /\ [](IssuedBy(Grower) \cap IssuedBy(RecipeGen) = {})

(* ======================= properties of the reads ====================== *)

\* The potato records a finished read of p returned.
Returned(p) ==
  IF ph[p] # "ret" \/ ret[p].err # Nil THEN {}
  ELSE IF call[p].name = "GetPotato" THEN {ret[p].val}
  ELSE IF call[p].name \in {"GetAllPotatoes", "GetPotatoesByVariety"}
    THEN {ret[p].val[i] : i \in 1..Len(ret[p].val)}
  ELSE {}

\* The records that have been the complete stored value of key k: the one
\* the store started with and the ones the finished writes stored.
StoredVersions(k) ==
  (IF k \in DOMAIN store0 THEN {store0[k]} ELSE {})
  \cup {call[q].ent : q \in {w \in Callers :
                               /\ ph[w] = "ret" /\ ret[w].err = Nil
                               /\ call[w].name \in {"AddPotato",
                                                    "UpdatePotato"}
                               /\ k \in KeyOf(call[w])}}

\* C12: every record GetAllPotatoes, GetPotatoesByVariety or GetPotato
\* returns, with writers running beside the read, is one whole version
\* that was at some time the complete stored value of its key; none mixes
\* the fields of two versions.
C12_WholeVersions ==
  \A p \in Callers : \A v \in Returned(p) : v \in StoredVersions(v.id)

\* A read returned the version a concurrent writer stored over the seed
\* version of the key.
C12_Witness ==
  \E p, q \in Callers :
    /\ call[q].name \in {"AddPotato", "UpdatePotato"}
    /\ ph[q] = "ret" /\ ret[q].err = Nil
    /\ \E k \in KeyOf(call[q]) :
         /\ k \in DOMAIN store0
         /\ store0[k] # call[q].ent
         /\ call[q].ent \in Returned(p)

(* ============================ the service ============================= *)

ErrInvalidPotato == "ErrInvalidPotato"
ErrInvalidWeight == "ErrInvalidWeight"
ErrInvalidPrice == "ErrInvalidPrice"

\* The empty string as an identifier.
EmptyId == <<"", 0>>

\* The zero time.Time: a request that carries no harvest date.
ZeroTime == 0

\* A validation that lets a weight of zero through.
ValidateWeightAboveOrZero(potato) ==
  IF potato.id = EmptyId \/ potato.variety = "" THEN ErrInvalidPotato
  ELSE IF potato.weight < 0 THEN ErrInvalidWeight
  ELSE IF potato.price < 0 THEN ErrInvalidPrice
  ELSE Nil

\* A validation that does not look at the price.
ValidateNoPrice(potato) ==
  IF potato.id = EmptyId \/ potato.variety = "" THEN ErrInvalidPotato
  ELSE IF potato.weight <= 0 THEN ErrInvalidWeight
  ELSE Nil

\* validatePotato: the error it returns, Nil for none.
ValidatePotato(potato) ==
  IF potato.id = EmptyId \/ potato.variety = "" THEN ErrInvalidPotato
  ELSE IF potato.weight <= 0 THEN ErrInvalidWeight
  ELSE IF potato.price < 0 THEN ErrInvalidPrice
  ELSE Nil

\* CreatePotato: a zero harvest date becomes time.Now().
WithHarvestDate(potato) ==
  IF potato.harvest = ZeroTime THEN [potato EXCEPT !.harvest = Today]
                               ELSE potato

\* Request bodies the validation has to refuse: weight zero, weight
\* negative, price negative, empty id, empty variety.
BadPotatoes ==
  LET base == PotatoV(<<"p", 1>>, 1) IN
    {[base EXCEPT !.weight = 0],
     [base EXCEPT !.weight = 0 - 1],
     [base EXCEPT !.price = 0 - 1],
     [base EXCEPT !.id = EmptyId],
     [base EXCEPT !.variety = ""]}

\* Request bodies at the edge of what the validation accepts: the least
\* weight, a price of zero and no harvest date.
EdgePotatoes ==
  {[PotatoV(<<"p", 2>>, 1) EXCEPT !.weight = 1, !.price = 0,
                                  !.harvest = ZeroTime]}

ServicePotatoes ==
  {PotatoV(id, v) : id \in PotatoIds, v \in Versions}
  \cup BadPotatoes \cup EdgePotatoes

\* The write requests of the potato service.
WriteRequests ==
  {[svc |-> "CreatePotato", ent |-> e] : e \in ServicePotatoes}
  \cup {c \in {[svc |-> "UpdatePotato", id |-> id, ent |-> e] :
                 id \in PotatoIds, e \in ServicePotatoes} :
          c.ent.id = c.id \/ c.ent \in BadPotatoes \cup EdgePotatoes}
  \cup {[svc |-> "DeletePotato", id |-> id] : id \in PotatoIds}

\* The two aggregate requests of the potato service.
AggregateRequests ==
  {[svc |-> "GetInventorySummary"], [svc |-> "GetAnalytics"]}

\* The storage call a service method makes once it is past its
\* validation; the request is kept beside it.
StoreCallOf(c) ==
  CASE c.svc = "CreatePotato" ->
         [name |-> "AddPotato", ent |-> WithHarvestDate(c.ent),
          svc |-> c.svc, arg |-> c.ent]
    [] c.svc = "UpdatePotato" ->
         [name |-> "UpdatePotato", id |-> c.id, ent |-> c.ent,
          svc |-> c.svc, arg |-> c.ent]
    [] c.svc = "DeletePotato" ->
         [name |-> "DeletePotato", id |-> c.id, svc |-> c.svc]
    [] c.svc \in {"GetInventorySummary", "GetAnalytics"} ->
         [name |-> "GetAllPotatoes", svc |-> c.svc]
    [] c.svc = "CreateRecipe" ->
         [name |-> "AddRecipe", ent |-> c.ent, svc |-> c.svc, arg |-> c.ent]
    [] c.svc = "CheckFreshness" ->
         [name |-> "GetPotato", id |-> c.id, svc |-> c.svc, hour |-> c.hour]
    [] c.svc = "RecommendRecipe" ->
         [name |-> "GetRecipesByVariety", variety |-> c.variety,
          svc |-> c.svc, difficulty |-> c.difficulty]

Validated == {"CreatePotato", "UpdatePotato", "CreateRecipe"}

ErrInvalidRecipe == "ErrInvalidRecipe"

ErrCookingTime == "cooking time must be positive"

\* A validation that takes any cooking time.
ValidateRecipeAnyTime(recipe) ==
  IF recipe.id = EmptyId \/ recipe.name = "" \/ recipe.variety = ""
    THEN ErrInvalidRecipe
  ELSE Nil

ValidateRecipe(recipe) ==
  IF recipe.id = EmptyId \/ recipe.name = "" \/ recipe.variety = ""
    THEN ErrInvalidRecipe
  ELSE IF recipe.cookingTime <= 0 THEN ErrCookingTime
  ELSE Nil

\* The validation the service method runs on its argument.
Validate(c) ==
  IF c.svc = "CreateRecipe" THEN ValidateRecipe(c.ent)
                            ELSE ValidatePotato(c.ent)

\* A service method is entered. CreatePotato, UpdatePotato and
\* CreateRecipe validate first and return the validation error without
\* calling the storage;
\* every other path goes on to its one storage call.
ServiceRequest(p, menu) ==
  /\ Alive
  /\ ph[p] = "none"
  /\ \E c \in menu :
       IF c.svc \in Validated /\ Validate(c) # Nil
         THEN /\ call' = [call EXCEPT ![p] =
                            [name |-> "none", svc |-> c.svc, arg |-> c.ent]]
              /\ ret' = [ret EXCEPT ![p] = [err |-> Validate(c)]]
              /\ ph' = [ph EXCEPT ![p] = "done"]
         ELSE /\ call' = [call EXCEPT ![p] = StoreCallOf(c)]
              /\ ret' = [ret EXCEPT ![p] = NoRet]
              /\ ph' = [ph EXCEPT ![p] = "wait"]
  /\ UNCHANGED <<potatoes, recipes, mu, found, outside>>

(* exact fractions: <<numerator, denominator>> in lowest terms *)

RECURSIVE GCD(_, _)
GCD(a, b) == IF b = 0 THEN a ELSE GCD(b, a % b)

Abs(n) == IF n < 0 THEN 0 - n ELSE n

\* n / d for d >= 0. A float64 division by zero does not fail: it gives
\* an infinity, <<1, 0>> or <<-1, 0>>, or for 0 / 0 the NaN <<0, 0>>.
Rat(n, d) ==
  IF d = 0 THEN <<IF n > 0 THEN 1 ELSE IF n < 0 THEN 0 - 1 ELSE 0, 0>>
  ELSE LET g == GCD(Abs(n), d) IN <<n \div g, d \div g>>

RatTimes(r, k) == Rat(r[1] * k, r[2])

RatPlus(r, k) == Rat(r[1] + k * r[2], r[2])

RatOver(r, k) == Rat(r[1], r[2] * k)

\* A loop body that adds the price to both totals and groups nothing.
SummaryStepPriceOnly(acc, potato) ==
  [acc EXCEPT !.totalWeight = @ + potato.price,
              !.totalValue = @ + potato.price]

\* An average that gives the new price half of the weight.
HalvingAverage(avg, n, price) == RatOver(RatPlus(avg, price), 2)

\* A range that ends on the last variety it meets, whatever its count.
LastInRange(order, counts, best, maxCount) ==
  IF order = <<>> THEN best ELSE order[Len(order)]

\* An analytics that goes on to compute over an empty slice.
NeverEmpty(slice) == FALSE

\* item.AveragePrice after one more price, item.TotalQuantity already
\* incremented to n: (avg*(n-1) + price) / n.
RunningAverage(avg, n, price) ==
  RatOver(RatPlus(RatTimes(avg, n - 1), price), n)

\* One iteration of GetInventorySummary's loop over the slice.
SummaryStep(acc, potato) ==
  LET vm == acc.varietyMap
      v == potato.variety
  IN  [totalWeight |-> acc.totalWeight + potato.weight,
       totalValue |-> acc.totalValue + potato.price,
       varietyMap |->
         IF v \in DOMAIN vm
           THEN Put(vm, v,
                    [variety |-> v,
                     totalQuantity |-> vm[v].totalQuantity + 1,
                     totalWeight |-> vm[v].totalWeight + potato.weight,
                     averagePrice |->
                       RunningAverage(vm[v].averagePrice,
                                      vm[v].totalQuantity + 1,
                                      potato.price)])
           ELSE Put(vm, v,
                    [variety |-> v,
                     totalQuantity |-> 1,
                     totalWeight |-> potato.weight,
                     averagePrice |-> Rat(potato.price, 1)])]

RECURSIVE SummaryFold(_, _)
SummaryFold(s, acc) ==
  IF s = <<>> THEN acc
  ELSE SummaryFold(Tail(s), SummaryStep(acc, Head(s)))

\* A summary whose count comes from a second look at the store.
CountLive(slice, m) == Cardinality(DOMAIN m)

\* TotalPotatoes: len(potatoes), the length of the slice fetched at the
\* start of the aggregate.
CountOf(slice, m) == Len(slice)

\* The results GetInventorySummary can return from the slice it fetched:
\* one for each order the range over varietyMap can take.
InventorySummaries(slice, m) ==
  LET acc == SummaryFold(slice, [totalWeight |-> 0, totalValue |-> 0,
                                 varietyMap |-> EmptyMap])
  IN  {[totalPotatoes |-> CountOf(slice, m),
        totalWeight |-> acc.totalWeight,
        totalValue |-> acc.totalValue,
        byVariety |-> ValuesIn(acc.varietyMap, order)] :
         order \in RangeOrders(acc.varietyMap)}

\* One iteration of GetAnalytics' loop over the slice.
AnalyticsStep(acc, potato) ==
  [varietyCount |->
     Put(acc.varietyCount, potato.variety,
         IF potato.variety \in DOMAIN acc.varietyCount
           THEN acc.varietyCount[potato.variety] + 1 ELSE 1),
   totalWeight |-> acc.totalWeight + potato.weight,
   totalValue |-> acc.totalValue + potato.price,
   premiumCount |-> acc.premiumCount
                      + (IF potato.quality = Premium THEN 1 ELSE 0)]

RECURSIVE AnalyticsFold(_, _)
AnalyticsFold(s, acc) ==
  IF s = <<>> THEN acc
  ELSE AnalyticsFold(Tail(s), AnalyticsStep(acc, Head(s)))

\* The range over varietyCount: a variety replaces the best so far only
\* with a strictly greater count.
RECURSIVE MostPopular(_, _, _, _)
MostPopular(order, counts, best, maxCount) ==
  IF order = <<>> THEN best
  ELSE IF counts[Head(order)] > maxCount
    THEN MostPopular(Tail(order), counts, Head(order), counts[Head(order)])
    ELSE MostPopular(Tail(order), counts, best, maxCount)

\* models.PotatoAnalytics{}: what GetAnalytics returns for no potatoes.
ZeroAnalytics ==
  [mostPopularVariety |-> "", averageWeight |-> Rat(0, 1),
   premiumPercentage |-> Rat(0, 1), totalValue |-> 0]

\* if len(potatoes) == 0
EmptySnapshot(slice) == Len(slice) = 0

\* The results GetAnalytics can return from the slice it fetched: one for
\* each order the range over varietyCount can take.
Analytics(slice) ==
  IF EmptySnapshot(slice) THEN {ZeroAnalytics}
  ELSE
    LET acc == AnalyticsFold(slice, [varietyCount |-> EmptyMap,
                                     totalWeight |-> 0, totalValue |-> 0,
                                     premiumCount |-> 0])
    IN  {[mostPopularVariety |-> MostPopular(order, acc.varietyCount, "", 0),
          averageWeight |-> Rat(acc.totalWeight, Len(slice)),
          premiumPercentage |->
            RatTimes(Rat(acc.premiumCount, Len(slice)), 100),
          totalValue |-> acc.totalValue] :
           order \in RangeOrders(acc.varietyCount)}

\* Go's conversion of a quotient to int: towards zero.
Trunc(n, d) == IF n >= 0 THEN n \div d ELSE 0 - ((0 - n) \div d)

\* int(time.Since(potato.HarvestDate).Hours() / 24), the clock standing
\* at the given hour of the day Today.
WholeDaysSince(potato, hour) ==
  Trunc((Today - potato.harvest) * 24 + hour, 24)

\* A grading whose three limits belong to the older side.
CalculateFreshnessBelow(potato, hour) ==
  LET daysSinceHarvest == WholeDaysSince(potato, hour) IN
    IF daysSinceHarvest < 7 THEN "Fresh"
    ELSE IF daysSinceHarvest < 30 THEN "Good"
    ELSE IF daysSinceHarvest < 90 THEN "Fair"
    ELSE "Old"

CalculateFreshness(potato, hour) ==
  LET daysSinceHarvest == WholeDaysSince(potato, hour) IN
    IF daysSinceHarvest <= 7 THEN "Fresh"
    ELSE IF daysSinceHarvest <= 30 THEN "Good"
    ELSE IF daysSinceHarvest <= 90 THEN "Fair"
    ELSE "Old"

ErrNoRecipes == "no recipes found for variety"

\* models.Recipe{}
ZeroRecipe ==
  [id |-> EmptyId, name |-> "", variety |-> "", cookingTime |-> 0,
   difficulty |-> "", ingredients |-> <<>>, instructions |-> <<>>,
   servings |-> 0]

\* The first recipe of the slice from position i on that the difficulty
\* admits, or 0.
RECURSIVE FirstMatch(_, _, _)
FirstMatch(slice, difficulty, i) ==
  IF i > Len(slice) THEN 0
  ELSE IF difficulty = "" \/ slice[i].difficulty = difficulty THEN i
  ELSE FirstMatch(slice, difficulty, i + 1)

\* A recommendation that gives up when no recipe has the difficulty.
RecommendExact(slice, difficulty) ==
  IF FirstMatch(slice, difficulty, 1) # 0
    THEN [err |-> Nil, recipe |-> slice[FirstMatch(slice, difficulty, 1)]]
    ELSE [err |-> ErrNoRecipes, recipe |-> ZeroRecipe]

\* RecommendRecipe after its storage call returned the slice.
RecommendRecipe(slice, difficulty) ==
  IF FirstMatch(slice, difficulty, 1) # 0
    THEN [err |-> Nil, recipe |-> slice[FirstMatch(slice, difficulty, 1)]]
  ELSE IF Len(slice) > 0 THEN [err |-> Nil, recipe |-> slice[1]]
  ELSE [err |-> ErrNoRecipes, recipe |-> ZeroRecipe]

\* The service method returns to its caller once its storage call has
\* returned: an aggregate computes its result from the slice it fetched,
\* a write hands back the entity or the storage error.
ServiceReturn(p) ==
  /\ Alive
  /\ ph[p] = "ret"
  /\ "svc" \in DOMAIN call[p]
  /\ ph' = [ph EXCEPT ![p] = "done"]
  /\ \E out \in (CASE call[p].svc = "GetInventorySummary" ->
                        InventorySummaries(ret[p].val, potatoes)
                   [] call[p].svc = "GetAnalytics" -> Analytics(ret[p].val)
                   [] call[p].svc = "DeletePotato" -> {Nil}
                   [] call[p].svc = "CheckFreshness" ->
                        {IF ret[p].err = Nil
                           THEN CalculateFreshness(ret[p].val, call[p].hour)
                           ELSE Nil}
                   [] call[p].svc = "RecommendRecipe" ->
                        {RecommendRecipe(ret[p].val, call[p].difficulty)}
                   [] OTHER -> {IF ret[p].err = Nil THEN call[p].ent
                                                    ELSE Nil}) :
       ret' = [ret EXCEPT ![p] =
                 IF call[p].name = "GetAllPotatoes"
                   THEN [err |-> Nil, val |-> ret[p].val, out |-> out]
                 ELSE IF call[p].svc = "RecommendRecipe"
                   THEN [err |-> out.err, val |-> ret[p].val,
                         out |-> out.recipe]
                 ELSE IF call[p].svc = "CheckFreshness"
                   THEN [x \in DOMAIN ret[p] \cup {"out"} |->
                           IF x = "out" THEN out ELSE ret[p][x]]
                   ELSE [err |-> ret[p].err, out |-> out]]
  /\ UNCHANGED <<potatoes, recipes, mu, call, found, outside>>

\* The request is answered; its goroutine ends and the next request of
\* the client gets one.
NextRequest(p) ==
  /\ Alive
  /\ ph[p] = "done"
  /\ ph' = [ph EXCEPT ![p] = "none"]
  /\ call' = [call EXCEPT ![p] = NoCall]
  /\ ret' = [ret EXCEPT ![p] = NoRet]
  /\ found' = [found EXCEPT ![p] = FALSE]
  /\ UNCHANGED <<potatoes, recipes, mu, outside>>

\* The client whose write requests come one after the other, and the
\* client that asks for the aggregates.
Client == CallerNames[1]

Reporter == CallerNames[2]

\* The service under a stream of write requests and an aggregate request.
NextService ==
  \/ ServiceRequest(Client, WriteRequests)
  \/ Acquire(Client)
  \/ AddPotatoBody(Client)
  \/ PotatoLookup(Client)
  \/ UpdatePotatoBody(Client)
  \/ DeletePotatoBody(Client)
  \/ ServiceReturn(Client)
  \/ NextRequest(Client)
  \/ ServiceRequest(Reporter, AggregateRequests)
  \/ Acquire(Reporter)
  \/ GetAllPotatoesBody(Reporter)
  \/ ServiceReturn(Reporter)

SpecService == Init /\ [][NextService]_vars

(* ===================== properties of the aggregates =================== *)

\* The slice holds the values of map m, each key's once, in some order.
SameContent(slice, m) ==
  \E order \in RangeOrders(m) : slice = ValuesIn(m, order)

RECURSIVE SumField(_, _)
SumField(s, f) == IF s = <<>> THEN 0 ELSE Head(s)[f] + SumField(Tail(s), f)

VarietiesOf(slice) == {slice[i].variety : i \in 1..Len(slice)}

\* The group of one variety: its count, its summed weight and the mean of
\* its prices.
GroupOf(slice, v) ==
  LET members == FilterVariety(slice, v) IN
    [variety |-> v,
     totalQuantity |-> Len(members),
     totalWeight |-> SumField(members, "weight"),
     averagePrice |-> Rat(SumField(members, "price"), Len(members))]

\* out is the inventory summary of the records of the slice.
IsSummaryOf(out, slice) ==
  /\ out.totalPotatoes = Len(slice)
  /\ out.totalWeight = SumField(slice, "weight")
  /\ out.totalValue = SumField(slice, "price")
  /\ Len(out.byVariety) = Cardinality(VarietiesOf(slice))
  /\ {out.byVariety[i] : i \in 1..Len(out.byVariety)}
       = {GroupOf(slice, v) : v \in VarietiesOf(slice)}

\* out is the analytics of the records of the slice.
IsAnalyticsOf(out, slice) ==
  IF slice = <<>> THEN out = ZeroAnalytics
  ELSE
    /\ out.mostPopularVariety \in VarietiesOf(slice)
    /\ \A v \in VarietiesOf(slice) :
         Len(FilterVariety(slice, v))
           <= Len(FilterVariety(slice, out.mostPopularVariety))
    /\ out.averageWeight = Rat(SumField(slice, "weight"), Len(slice))
    /\ out.premiumPercentage =
         Rat(100 * Cardinality({i \in 1..Len(slice) :
                                  slice[i].quality = Premium}),
             Len(slice))
    /\ out.totalValue = SumField(slice, "price")

\* C13: an aggregate running beside add, update and delete calls returns
\* the aggregate of the store as it was at one instant of the call: its
\* one read copies the whole map in one step, it makes no other store
\* call, and its result is computed from that copy alone.
C13_OneSnapshot ==
  /\ [][(ph[Reporter] = "cs" /\ ph'[Reporter] = "ret")
          => SameContent(ret'[Reporter].val, potatoes)]_vars
  /\ [][ph[Reporter] = "ret" => ph'[Reporter] \in {"ret", "done"}]_vars
  /\ [](ph[Reporter] = "done" =>
          IF call[Reporter].svc = "GetInventorySummary"
            THEN IsSummaryOf(ret[Reporter].out, ret[Reporter].val)
            ELSE IsAnalyticsOf(ret[Reporter].out, ret[Reporter].val))

\* An aggregate over two or more records has returned after a write
\* changed the number of stored records behind its back.
C13_Witness ==
  /\ ph[Reporter] = "done"
  /\ Len(ret[Reporter].val) >= 2
  /\ Cardinality(DOMAIN potatoes) # Len(ret[Reporter].val)
  /\ ph[Client] = "done" /\ call[Client].name = "DeletePotato"
  /\ ret[Client].err = Nil

(* ===================== properties of the validation =================== *)

ValidationErrors == {ErrInvalidPotato, ErrInvalidWeight, ErrInvalidPrice}

\* The request body has a weight of zero or less, a negative price, an
\* empty id or an empty variety.
Malformed(potato) ==
  \/ potato.weight = 0
  \/ potato.weight < 0
  \/ potato.price < 0
  \/ potato.id = EmptyId
  \/ potato.variety = ""

\* The client's current request is a CreatePotato or UpdatePotato with a
\* malformed body.
MalformedRequest(c) == "arg" \in DOMAIN c /\ Malformed(c.arg)

\* C14: CreatePotato and UpdatePotato with weight = 0, weight < 0,
\* price < 0, an empty id or an empty variety return a validation error
\* (the call never reaches the storage), and the step that makes the call
\* leaves the potatoes map exactly as it was.
C14_RejectsMalformed ==
  /\ [](MalformedRequest(call[Client]) =>
          /\ ph[Client] = "done"
          /\ call[Client].name = "none"
          /\ ret[Client].err \in ValidationErrors)
  /\ [][(MalformedRequest(call'[Client]) /\ call'[Client] # call[Client])
          => potatoes' = potatoes /\ recipes' = recipes]_vars

\* An UpdatePotato of a stored key with a weight of zero was refused.
C14_Witness ==
  /\ ph[Client] = "done"
  /\ MalformedRequest(call[Client])
  /\ call[Client].svc = "UpdatePotato"
  /\ call[Client].arg.weight = 0
  /\ call[Client].arg.id \in DOMAIN potatoes
  /\ ret[Client].err = ErrInvalidWeight

\* A write request of the service beside the tasks that write potatoes.
NextValid ==
  \/ ServiceRequest(Client, WriteRequests)
  \/ Acquire(Client)
  \/ AddPotatoBody(Client)
  \/ PotatoLookup(Client)
  \/ UpdatePotatoBody(Client)
  \/ DeletePotatoBody(Client)
  \/ ServiceReturn(Client)
  \/ GrowerStep
  \/ DegraderStep

SpecValid == InitLife /\ [][NextValid]_vars

\* C15: every stored potato has weight > 0, price >= 0, a non-empty id and
\* a non-empty variety: the seed's potatoes do, and so does every potato a
\* create or update request, the grower or the degrader stores.
C15_StoredValid ==
  \A k \in DOMAIN potatoes :
    /\ potatoes[k].weight > 0
    /\ potatoes[k].price >= 0
    /\ potatoes[k].id # EmptyId
    /\ potatoes[k].variety # ""

\* After a degrader pass the store holds a potato the grower made beside
\* one a request stored with the least weight and a price of zero.
C15_Witness ==
  /\ Len(passes) >= 1
  /\ \E k \in DOMAIN potatoes : k[2] > CounterStart
  /\ \E k \in DOMAIN potatoes :
       potatoes[k].price = 0 /\ potatoes[k].weight = 1

(* =================== properties of one degrader pass ================== *)

\* The item's age in whole days.
AgeOf(potato) == Today - potato.harvest

\* What one pass has to make of an item: Premium older than 30 days
\* becomes Standard, Standard older than 60 days becomes Economy, and
\* anything else stays as it is.
AfterOnePass(potato) ==
  IF potato.quality = "Premium" /\ AgeOf(potato) > 30
    THEN [potato EXCEPT !.quality = "Standard"]
  ELSE IF potato.quality = "Standard" /\ AgeOf(potato) > 60
    THEN [potato EXCEPT !.quality = "Economy"]
  ELSE potato

\* C16: one degrader pass over a store no one else writes turns a Premium
\* item older than 30 whole days into Standard and a Standard item older
\* than 60 whole days into Economy, and leaves every other item as it
\* was: Premium of age 30 or less, Standard of age 60 or less, Economy of
\* any age.
C16_OnePass ==
  Len(passes) >= 1 =>
    /\ DOMAIN passes[1] = DOMAIN store0
    /\ \A k \in DOMAIN store0 : passes[1][k] = AfterOnePass(store0[k])

\* A pass is over a store that held a Premium item of age exactly 30 beside
\* a Standard item of age 61; the first is still Premium, the second is
\* Economy now.
C16_Witness ==
  /\ Len(passes) >= 1
  /\ \E j, k \in DOMAIN store0 :
       /\ store0[j].quality = Premium /\ AgeOf(store0[j]) = 30
       /\ passes[1][j].quality = Premium
       /\ store0[k].quality = Standard /\ AgeOf(store0[k]) = 61
       /\ passes[1][k].quality = Economy

(* ================== what a caller does with a result ================== *)

SingleReads == {"GetPotato", "GetRecipe"}

RecipeReads == {"GetRecipe", "GetAllRecipes", "GetRecipesByVariety"}

\* The read calls of the store.
ReadCalls == {c \in RequestCalls : c.name \in ReaderCalls}

\* The caller holds the result of a read that returned entities.
HoldsResult(p) ==
  /\ ph[p] = "ret"
  /\ call[p].name \in ReaderCalls
  /\ ret[p].err = Nil

\* The entities the caller holds, as a slice.
Held(p) ==
  IF call[p].name \in SingleReads THEN <<ret[p].val>> ELSE ret[p].val

\* The caller's result with entity e in place of its j-th entity.
WithHeld(p, j, e) ==
  IF call[p].name \in SingleReads
    THEN [ret[p] EXCEPT !.val = e]
    ELSE [ret[p] EXCEPT !.val[j] = e]

\* The caller assigns a field of an entity it was returned: the entity is
\* the caller's own copy of the struct, and nothing else changes.
CallerSetsField(p) ==
  /\ Alive
  /\ HoldsResult(p)
  /\ \E j \in 1..Len(Held(p)) :
       ret' = [ret EXCEPT ![p] =
                 WithHeld(p, j, [Held(p)[j] EXCEPT !.variety = "Fingerling"])]
  /\ UNCHANGED <<potatoes, recipes, mu, ph, call, found, outside>>

\* Recipe r with element i of its slice field f set to x.
Poke(r, f, i, x) == [r EXCEPT ![f] = [@ EXCEPT ![i] = x]]

\* What goroutine q holds after element i of slice f of the recipe stored
\* under id was assigned: each copy of that recipe q was returned has the
\* same slice header as the stored one, hence the same elements.
Poked(q, id, f, i, x) ==
  IF ~(HoldsResult(q) /\ call[q].name \in RecipeReads) THEN ret[q]
  ELSE IF call[q].name \in SingleReads
    THEN [ret[q] EXCEPT !.val = IF @.id = id THEN Poke(@, f, i, x) ELSE @]
    ELSE [ret[q] EXCEPT !.val =
            [j \in 1..Len(@) |->
               IF @[j].id = id THEN Poke(@[j], f, i, x) ELSE @[j]]]

\* The caller assigns an element of the Ingredients or Instructions slice
\* of a recipe it was returned. GetRecipe and GetAllRecipes copy the
\* Recipe struct, which copies the two slice headers and not the arrays
\* behind them: the assignment lands in the array of the stored recipe.
CallerSetsElement(p) ==
  /\ Alive
  /\ HoldsResult(p)
  /\ call[p].name \in RecipeReads
  /\ \E j \in 1..Len(Held(p)) :
       \E f \in {"ingredients", "instructions"} :
         \E i \in 1..Len(Held(p)[j][f]) :
           LET id == Held(p)[j].id IN
             /\ id \in DOMAIN recipes
             /\ recipes' = [recipes EXCEPT ![id] = Poke(@, f, i, "x")]
             /\ ret' = [q \in Procs |-> Poked(q, id, f, i, "x")]
  /\ UNCHANGED <<potatoes, mu, ph, call, found, outside>>

\* Readers of the store that go on to change what they were returned; no
\* store write is made.
NextAlias ==
  \E p \in Callers :
    \/ RequestFrom(p, ReadCalls)
    \/ Acquire(p)
    \/ GetPotatoBody(p)
    \/ GetAllPotatoesBody(p)
    \/ GetPotatoesByVarietyBody(p)
    \/ GetRecipeBody(p)
    \/ GetAllRecipesBody(p)
    \/ GetRecipesByVarietyBody(p)
    \/ CallerSetsField(p)
    \/ CallerSetsElement(p)

SpecAlias == InitLife /\ [][NextAlias]_vars

\* A caller changes an entity it holds.
CallerMutates(p) ==
  /\ ph[p] = "ret" /\ ph'[p] = "ret"
  /\ ret'[p] # ret[p]

\* C17: every value a store read returns is an independent copy: when a
\* caller changes an entity it was returned, a field of it or an element
\* of a recipe's ingredient or instruction list, the store's maps stay as
\* they are, and so does what a later read returns.
C17_IndependentCopies ==
  [][(\E p \in Callers : CallerMutates(p))
       => potatoes' = potatoes /\ recipes' = recipes]_vars

(* ====================== properties of the recipes ===================== *)

\* C18 as stated: a recipe, once stored, is never updated or deleted: its
\* id stays a key and the recipe under it never changes, also when
\* CreateRecipe or the recipe generator is called again with the id.
C18_RecipeNeverChanges ==
  [][\A id \in DOMAIN recipes :
       id \in DOMAIN recipes' /\ recipes'[id] = recipes[id]]_vars

\* Goroutine p's AddRecipe runs its body.
AddRecipeReturns(p) ==
  /\ call[p].name = "AddRecipe"
  /\ ph[p] = "cs"
  /\ ph'[p] = "ret"

\* C18, amended: no operation of the store removes a recipe id, and the
\* only operation that changes the recipe under an id is AddRecipe
\* (CreateRecipe or the recipe generator) called again with that id, which
\* replaces it by the recipe it was given.
C18_RecipeReplacedOnlyByAdd ==
  [][\A id \in DOMAIN recipes :
       /\ id \in DOMAIN recipes'
       /\ recipes'[id] # recipes[id] =>
            \E p \in Procs :
              /\ AddRecipeReturns(p)
              /\ call[p].ent.id = id
              /\ recipes'[id] = call[p].ent]_vars

\* One caller read the seed recipe and another's AddRecipe with the same
\* id has replaced it since.
C18_Witness ==
  \E p, q \in Callers :
    /\ ph[p] = "ret" /\ call[p].name = "AddRecipe"
    /\ ph[q] = "ret" /\ call[q].name = "GetRecipe" /\ ret[q].err = Nil
    /\ call[q].id = call[p].ent.id
    /\ ret[q].val # call[p].ent
    /\ recipes[call[q].id] = call[p].ent

(* ====================== properties of the remover ===================== *)

\* The ids the remover's current pass selected: the first numToRemove of
\* its shuffled snapshot.
Selected == {snap[Remover][i].id : i \in 1..nrem}

\* The remover's DeletePotato runs its body.
RemoverDeletes ==
  /\ call[Remover].name = "DeletePotato"
  /\ ph[Remover] \in InCS
  /\ ph'[Remover] = "ret"

\* The remover is between two passes, the last pass's selection still in
\* snap and nrem.
RemoverPassOver == tpc[Remover] = "idle" /\ ticks[Remover] >= 1

\* C19: a delete of the remover takes out the one item it names, which the
\* pass selected from its own snapshot, and nothing else; when the item is
\* already gone the delete returns ErrNotFound and changes nothing, and
\* the pass still goes through the rest of its selection: at its end no
\* selected item is stored.
C19_RemovesSelection ==
  /\ [][RemoverDeletes =>
          /\ call[Remover].id \in Selected
          /\ IF call[Remover].id \in DOMAIN potatoes
               THEN /\ potatoes' = Remove(potatoes, call[Remover].id)
                    /\ ret'[Remover].err = Nil
               ELSE /\ potatoes' = potatoes
                    /\ ret'[Remover].err = ErrNotFound]_vars
  /\ [](RemoverPassOver => \A id \in Selected : id \notin DOMAIN potatoes)

\* A pass that selected two items is over; a request deleted the first
\* selected item before the remover got to it, and both are gone.
C19_Witness ==
  /\ RemoverPassOver
  /\ nrem = 2
  /\ ph[Racer] = "ret" /\ call[Racer].name = "DeletePotato"
  /\ ret[Racer].err = Nil
  /\ call[Racer].id = snap[Remover][1].id
  /\ ticks[Remover] = 1
  /\ \A id \in Selected : id \notin DOMAIN potatoes

(* ================== properties of the task scheduling ================= *)

\* The goroutines inside a store method as writers, and as readers.
WritersInside ==
  {p \in Procs : ph[p] \in InCS /\ call[p].name \in WriterCalls}

ReadersInside ==
  {p \in Procs : ph[p] \in InCS /\ call[p].name \in ReaderCalls}

\* The task is in the middle of an iteration and outside any store call.
Stalled(t) == tpc[t] # "idle" /\ ph[t] \in {"none", "ret"}

\* C20: the lock is held by exactly the goroutines that are inside a store
\* method, so a task that stands still between two of its store calls
\* holds nothing, and a task waiting for the lock is kept out only by a
\* goroutine that is inside a store method at that moment.
C20_TasksIndependent ==
  /\ \A m \in Mutexes :
       /\ mu[m].w = (WritersInside # {})
       /\ mu[m].r = Cardinality(ReadersInside)
  /\ \A u \in Tasks :
       (ph[u] = "wait" /\ ~CanAcquire(u))
         => \E p \in Procs \ {u} : ph[p] \in InCS

\* The degrader stands between two updates of its pass while the grower
\* is inside AddPotato.
C20_Witness ==
  /\ tpc[Degrader] = "loop" /\ idx[Degrader] >= 2 /\ Stalled(Degrader)
  /\ tpc[Grower] = "call" /\ ph[Grower] \in InCS

(* ==================== progress of the store calls ===================== *)

\* The goroutines of the progress specification: a request goroutine
\* that makes one store call of any kind, one that makes one read, and
\* the remover, which makes several store calls in one iteration.
LiveProcs == {Client, Reporter, Remover}

NextLive ==
  \/ Request(Client)
  \/ StoreStep(Client)
  \/ RequestFrom(Reporter, ReadCalls)
  \/ Acquire(Reporter)
  \/ GetPotatoBody(Reporter)
  \/ GetAllPotatoesBody(Reporter)
  \/ GetPotatoesByVarietyBody(Reporter)
  \/ GetRecipeBody(Reporter)
  \/ GetAllRecipesBody(Reporter)
  \/ GetRecipesByVarietyBody(Reporter)
  \/ RemoverStep

\* Fair scheduling: a goroutine that can take a step of its store call, or
\* of its task loop, is not left standing forever.
FairLive ==
  /\ \A p \in {Client, Reporter} : WF_vars(StoreStep(p))
  /\ WF_vars(RemoverStep)

SpecLive == InitLife /\ [][NextLive]_vars /\ FairLive

\* Some goroutine stands before its Lock/RLock and cannot get it.
SomeoneKeptOut == \E p \in LiveProcs : ph[p] = "wait" /\ ~CanAcquire(p)

\* C21: no store call blocks forever. A goroutine is kept out of the lock
\* only while another is inside a store method (which holds the one lock,
\* waits for nothing and releases it on return), and under fair
\* scheduling every store call that was started returns.
C21_EveryCallReturns ==
  /\ [](SomeoneKeptOut => \E q \in LiveProcs : ph[q] \in InCS)
  /\ \A p \in LiveProcs : (ph[p] = "wait") ~> (ph[p] = "ret")

\* A request's write is kept waiting by the remover's second delete.
C21_Witness ==
  /\ ph[Client] = "wait" /\ call[Client].name \in WriterCalls
  /\ ~CanAcquire(Client)
  /\ ph[Remover] \in InCS /\ call[Remover].name = "DeletePotato"
  /\ idx[Remover] = 2

(* ===================== the aggregates at rest ========================= *)

\* Keys of the stores the aggregates are computed over.
ReportIds == {<<"p", 1>>, <<"p", 2>>, <<"p", 3>>}

\* Prices, in cents, of those stores' records.
ReportPrices == {100, 200, 300}

\* The record of a key in those stores: weight and quality go with the
\* key (0.1, 0.2, 0.3 kg; Premium, Standard, Premium), variety and price
\* are free.
ReportPotato(id, variety, price) ==
  [PotatoV(id, 0) EXCEPT !.variety = variety,
                         !.weight = 100 * id[2],
                         !.quality = IF id[2] = 2 THEN Standard ELSE Premium,
                         !.price = price]

\* Every store over those keys, the empty one included.
ReportStores ==
  UNION {{[id \in ks |-> ReportPotato(id, vp[id][1], vp[id][2])] :
            vp \in [ks -> {Varieties[1], Varieties[2]} \X ReportPrices]} :
           ks \in SUBSET ReportIds}

InitReport ==
  /\ potatoes \in ReportStores
  /\ recipes = EmptyMap
  /\ InitCommon

\* The two scans of the potatoes.
ScanCalls ==
  {[name |-> "GetAllPotatoes"]}
  \cup {[name |-> "GetPotatoesByVariety", variety |-> v] :
          v \in {Varieties[1], Varieties[2]}}

\* A store no one writes: one request scans it and one asks for an
\* aggregate.
NextReport ==
  \/ RequestFrom(Client, ScanCalls)
  \/ Acquire(Client)
  \/ GetAllPotatoesBody(Client)
  \/ GetPotatoesByVarietyBody(Client)
  \/ ServiceRequest(Reporter, AggregateRequests)
  \/ Acquire(Reporter)
  \/ GetAllPotatoesBody(Reporter)
  \/ ServiceReturn(Reporter)

SpecReport == InitReport /\ [][NextReport]_vars

\* The reporter's aggregate of the given kind has returned.
Reported(svc) == ph[Reporter] = "done" /\ call[Reporter].svc = svc

\* The client's GetAllPotatoes has returned.
Scanned == ph[Client] = "ret" /\ call[Client].name = "GetAllPotatoes"

\* C22: on a store without writers, GetInventorySummary's TotalWeight is
\* the sum of the weights, its TotalValue the sum of the prices and its
\* TotalPotatoes the number of the records that a GetAllPotatoes made
\* just before or after it returns (the sums taken exactly, with no
\* rounding).
C22_TotalsMatchScan ==
  (Reported("GetInventorySummary") /\ Scanned) =>
    /\ ret[Reporter].out.totalWeight = SumField(ret[Client].val, "weight")
    /\ ret[Reporter].out.totalValue = SumField(ret[Client].val, "price")
    /\ ret[Reporter].out.totalPotatoes = Len(ret[Client].val)

\* A summary and a scan of three records are done, and the two went
\* through the map in different orders.
C22_Witness ==
  /\ Reported("GetInventorySummary") /\ Scanned
  /\ Len(ret[Client].val) = 3
  /\ ret[Client].val # ret[Reporter].val
  /\ ret[Reporter].out.totalWeight = 600

\* The items of the reporter's snapshot that have the variety.
SnapshotOf(v) == FilterVariety(ret[Reporter].val, v)

\* C23: every variety group of GetInventorySummary has the number of the
\* snapshot's items of its variety as quantity and the arithmetic mean of
\* their prices as average price, in whatever order the snapshot was
\* visited (the arithmetic taken exactly, with no rounding).
C23_AverageIsMean ==
  Reported("GetInventorySummary") =>
    \A i \in 1..Len(ret[Reporter].out.byVariety) :
      LET g == ret[Reporter].out.byVariety[i] IN
        /\ g.totalQuantity = Len(SnapshotOf(g.variety))
        /\ g.totalQuantity >= 1
        /\ g.averagePrice = Rat(SumField(SnapshotOf(g.variety), "price"),
                                Len(SnapshotOf(g.variety)))

\* Three Russet items of prices 3, 1, 2, visited in that order, gave one
\* group of quantity 3, weight 0.6 and average price 2.
C23_Witness ==
  /\ Reported("GetInventorySummary")
  /\ Len(ret[Reporter].val) = 3
  /\ ret[Reporter].val[1].price = 300
  /\ ret[Reporter].val[2].price = 100
  /\ ret[Reporter].val[3].price = 200
  /\ ret[Reporter].out.byVariety =
       <<[variety |-> "Russet", totalQuantity |-> 3, totalWeight |-> 600,
          averagePrice |-> <<200, 1>>]>>

\* C24: GetAnalytics on an empty store returns the zero value: no variety,
\* and an average weight, a Premium percentage and a total value of zero.
C24_EmptyAnalytics ==
  (Reported("GetAnalytics") /\ ret[Reporter].val = <<>>) =>
    ret[Reporter].out = [mostPopularVariety |-> "",
                         averageWeight |-> <<0, 1>>,
                         premiumPercentage |-> <<0, 1>>,
                         totalValue |-> 0]

\* GetAnalytics has returned on a store that holds nothing.
C24_Witness ==
  /\ Reported("GetAnalytics")
  /\ ret[Reporter].val = <<>>
  /\ potatoes = EmptyMap

\* The number of Premium items in the slice.
PremiumIn(slice) ==
  Cardinality({i \in 1..Len(slice) : slice[i].quality = "Premium"})

\* C25: GetAnalytics on a snapshot that is not empty returns a most
\* popular variety that no variety of the snapshot outnumbers, 100 times
\* the number of Premium items over the number of items as Premium
\* percentage, and the sum of the prices as total value.
C25_AnalyticsOfSnapshot ==
  (Reported("GetAnalytics") /\ ret[Reporter].val # <<>>) =>
    LET slice == ret[Reporter].val
        out == ret[Reporter].out
    IN  /\ out.mostPopularVariety \in VarietiesOf(slice)
        /\ \A v \in VarietiesOf(slice) :
             Len(FilterVariety(slice, v))
               <= Len(FilterVariety(slice, out.mostPopularVariety))
        /\ out.premiumPercentage = Rat(100 * PremiumIn(slice), Len(slice))
        /\ out.totalValue = SumField(slice, "price")
        /\ out.averageWeight = Rat(SumField(slice, "weight"), Len(slice))

\* Analytics of three items, two of one variety and one of the other, two
\* of them Premium: the variety of the two is the most popular and the
\* percentage is 200/3.
C25_Witness ==
  /\ Reported("GetAnalytics")
  /\ Len(ret[Reporter].val) = 3
  /\ Cardinality(VarietiesOf(ret[Reporter].val)) = 2
  /\ Len(FilterVariety(ret[Reporter].val,
                       ret[Reporter].out.mostPopularVariety)) = 2
  /\ ret[Reporter].out.premiumPercentage = <<200, 3>>

(* ================= freshness and recommendation ======================= *)

\* Ages, in days, of the potatoes whose freshness is asked: both sides of
\* each limit, a harvest date in the future and a very old one.
FreshAges == {0 - 1, 0, 7, 8, 30, 31, 90, 91, 400}

\* Hours of the day at which the clock is read.
ClockHours == {0, 23}

\* Keys of the recipes of the stores recommendations are drawn from.
QueryRecipeIds == {<<"r", 1>>, <<"r", 2>>, <<"r", 3>>}

\* Difficulties of the stored recipes; "Medium" is asked for and never
\* stored.
StoredDifficulties == {"Easy", "Hard"}

\* Stores of at most one potato, of any of the ages.
QueryPotatoes ==
  {EmptyMap}
  \cup {[id \in {<<"p", 1>>} |-> [PotatoV(id, 0) EXCEPT !.harvest = Today - a]] :
          a \in FreshAges}

\* Stores of recipes of either variety and difficulty.
QueryRecipes ==
  UNION {{[id \in ks |-> [RecipeV(id, 0) EXCEPT !.variety = vd[id][1],
                                                !.difficulty = vd[id][2]]] :
            vd \in [ks -> {Varieties[1], Varieties[2]} \X StoredDifficulties]} :
           ks \in SUBSET QueryRecipeIds}

InitQuery ==
  /\ potatoes \in QueryPotatoes
  /\ recipes \in QueryRecipes
  /\ InitCommon

\* GET /potatoes/{id}/freshness and GET /recipes/recommend.
QueryRequests ==
  {[svc |-> "CheckFreshness", id |-> id, hour |-> h] :
     id \in PotatoIds, h \in ClockHours}
  \cup {[svc |-> "RecommendRecipe", variety |-> v, difficulty |-> d] :
          v \in {Varieties[1], Varieties[2]},
          d \in {"", "Easy", "Medium", "Hard"}}

\* One request for a freshness or a recommendation on a store no one
\* writes.
NextQuery ==
  \/ ServiceRequest(Client, QueryRequests)
  \/ Acquire(Client)
  \/ GetPotatoBody(Client)
  \/ GetRecipesByVarietyBody(Client)
  \/ ServiceReturn(Client)

SpecQuery == InitQuery /\ [][NextQuery]_vars

\* The client's request of the given kind has been answered.
Answered(svc) == ph[Client] = "done" /\ call[Client].svc = svc

OfVariety == {r \in {recipes[k] : k \in DOMAIN recipes} :
     r.variety = call[Client].variety}

\* C27: RecommendRecipe fails exactly when the store holds no recipe of
\* the variety; otherwise it returns a stored recipe of the variety, and
\* one of the difficulty asked for whenever a difficulty is asked for and
\* some stored recipe of the variety has it.
C27_Recommends ==
  Answered("RecommendRecipe") =>
    /\ (ret[Client].err # Nil) <=> (OfVariety = {})
    /\ OfVariety # {} => ret[Client].out \in OfVariety
    /\ ( /\ call[Client].difficulty # ""
         /\ \E r \in OfVariety : r.difficulty = call[Client].difficulty )
       => ret[Client].out.difficulty = call[Client].difficulty

\* The store holds an "Easy" and a "Hard" recipe of the variety and
\* "Medium" was asked for: the first recipe the storage returned, the
\* "Hard" one, was recommended.
C27_Witness ==
  /\ Answered("RecommendRecipe")
  /\ ret[Client].err = Nil
  /\ call[Client].difficulty = "Medium"
  /\ {r.difficulty : r \in OfVariety} = {"Easy", "Hard"}
  /\ ret[Client].out = ret[Client].val[1]
  /\ ret[Client].out.difficulty = "Hard"

(* ===================== the store's operations ========================= *)

\* The records of a slice, as a set.
Records(slice) == {slice[i] : i \in 1..Len(slice)}

\* Caller p's storage call of the given name returns in this step.
Returns(p, name) ==
  /\ ph[p] = "cs" \/ ph[p] = "chk"
  /\ call[p].name = name
  /\ ph'[p] = "ret"

\* C28: the records GetPotatoesByVariety(v) returns are exactly the
\* records of variety v that the store holds at the instant of the scan,
\* each of them once: those a GetAllPotatoes at that instant would return,
\* filtered, and never records of two states of the store.
C28_FilterOfOneState ==
  [][\A p \in {Client, Reporter} :
       Returns(p, "GetPotatoesByVariety") =>
         /\ Records(ret'[p].val)
              = {v \in {potatoes[k] : k \in DOMAIN potatoes} :
                   v.variety = call[p].variety}
         /\ Len(ret'[p].val) = Cardinality(Records(ret'[p].val))
         /\ WritersInside = {}]_vars

\* A scan by variety has returned some records and left out one of
\* another variety that the store, written since the start, still holds.
C28_Witness ==
  \E p \in {Client, Reporter} :
    /\ ph[p] = "ret"
    /\ call[p].name = "GetPotatoesByVariety"
    /\ ret[p].val # <<>>
    /\ potatoes # store0
    /\ \E k \in DOMAIN potatoes : potatoes[k].variety # call[p].variety

\* C29: AddPotato returns no error and leaves the store mapping the
\* entity's ID to the entity, whether the key was there or not, with
\* every other key as it was; so of two adds of one key the later one's
\* value is the one stored.
C29_AddIsUpsert ==
  [][\A p \in Callers :
       Returns(p, "AddPotato") =>
         /\ ret'[p].err = Nil
         /\ DOMAIN potatoes' = DOMAIN potatoes \cup {call[p].ent.id}
         /\ potatoes'[call[p].ent.id] = call[p].ent
         /\ \A k \in DOMAIN potatoes \ {call[p].ent.id} :
              potatoes'[k] = potatoes[k]]_vars

\* An add has returned on a key that held another value at the start and
\* holds the added one now, beside a key it did not touch.
C29_Witness ==
  /\ ph[Client] = "ret"
  /\ call[Client].name = "AddPotato"
  /\ ret[Client].err = Nil
  /\ call[Client].ent.id \in DOMAIN store0
  /\ store0[call[Client].ent.id] # call[Client].ent
  /\ potatoes[call[Client].ent.id] = call[Client].ent
  /\ \E k \in DOMAIN potatoes : k # call[Client].ent.id

\* The calls that look a potato up by key.
KeyedCalls == {"GetPotato", "UpdatePotato", "DeletePotato"}

\* C30: GetPotato, UpdatePotato and DeletePotato return ErrNotFound
\* exactly when the store does not hold the key while they have the lock,
\* and no other error; a call that returns ErrNotFound leaves potatoes
\* and recipes as they were, and a DeletePotato that succeeds removes its
\* key and nothing else.
C30_NotFoundIffAbsent ==
  [][\A p \in LiveProcs : \A name \in KeyedCalls :
       Returns(p, name) =>
         /\ ret'[p].err \in {Nil, ErrNotFound}
         /\ (ret'[p].err = ErrNotFound) <=> (call[p].id \notin DOMAIN potatoes)
         /\ ret'[p].err = ErrNotFound =>
              potatoes' = potatoes /\ recipes' = recipes
         /\ (name = "DeletePotato" /\ ret'[p].err = Nil) =>
              /\ potatoes' = [k \in DOMAIN potatoes \ {call[p].id} |->
                                potatoes[k]]
              /\ recipes' = recipes]_vars

\* The remover's delete was answered ErrNotFound because the client had
\* deleted the key first, and the other key is still there.
C30_Witness ==
  /\ ph[Remover] = "ret"
  /\ call[Remover].name = "DeletePotato"
  /\ ret[Remover].err = ErrNotFound
  /\ ph[Client] = "ret"
  /\ call[Client].name = "DeletePotato"
  /\ ret[Client].err = Nil
  /\ call[Client].id = call[Remover].id
  /\ potatoes # EmptyMap

(* ========================= creating recipes =========================== *)

\* Request bodies that validateRecipe refuses.
BadRecipes ==
  LET base == RecipeV(<<"r", 1>>, 1) IN
    {[base EXCEPT !.id = EmptyId],
     [base EXCEPT !.name = ""],
     [base EXCEPT !.variety = ""],
     [base EXCEPT !.cookingTime = 0],
     [base EXCEPT !.cookingTime = 0 - 1]}

\* Request bodies it lets through: a new version of the seeded recipe, a
\* recipe under a new key, and one of the least cooking time.
GoodRecipes ==
  {RecipeV(id, v) : id \in {<<"r", 1>>, <<"r", 2>>}, v \in Versions}
  \cup {[RecipeV(<<"r", 2>>, 1) EXCEPT !.cookingTime = 1]}

\* POST /recipes.
RecipeRequests ==
  {[svc |-> "CreateRecipe", ent |-> e] : e \in GoodRecipes \cup BadRecipes}

\* A client that creates recipes, one after the other, beside the recipe
\* generator, on the seeded store.
NextRecipe ==
  \/ ServiceRequest(Client, RecipeRequests)
  \/ Acquire(Client)
  \/ AddRecipeBody(Client)
  \/ ServiceReturn(Client)
  \/ NextRequest(Client)
  \/ RecipeGenStep

SpecRecipe == InitLife /\ [][NextRecipe]_vars

\* The request body has an empty id, name or variety, or a cooking time
\* of zero or less.
MalformedRecipe(recipe) ==
  \/ recipe.id = EmptyId
  \/ recipe.name = ""
  \/ recipe.variety = ""
  \/ recipe.cookingTime = 0
  \/ recipe.cookingTime < 0

\* The client's current request is a CreateRecipe with such a body.
MalformedRecipeRequest(c) == "arg" \in DOMAIN c /\ MalformedRecipe(c.arg)

\* C31: CreateRecipe with an empty id, name or variety or a cooking time
\* of zero or less returns an error without calling the storage, and the
\* step that makes the call leaves the store as it was; and every stored
\* recipe, whether seeded, created by a request or generated, has an id,
\* a name and a variety that are not empty and a cooking time above zero.
C31_RecipesValid ==
  /\ [](MalformedRecipeRequest(call[Client]) =>
          /\ ph[Client] = "done"
          /\ call[Client].name = "none"
          /\ ret[Client].err \in {ErrInvalidRecipe, ErrCookingTime})
  /\ [][(MalformedRecipeRequest(call'[Client]) /\ call'[Client] # call[Client])
          => potatoes' = potatoes /\ recipes' = recipes]_vars
  /\ [](\A k \in DOMAIN recipes :
          /\ recipes[k].id # EmptyId
          /\ recipes[k].name # ""
          /\ recipes[k].variety # ""
          /\ recipes[k].cookingTime > 0)

\* A CreateRecipe with a cooking time of zero was refused while the store
\* holds a generated recipe beside one created with a cooking time of 1.
C31_Witness ==
  /\ ph[Client] = "done"
  /\ MalformedRecipeRequest(call[Client])
  /\ call[Client].arg.cookingTime = 0
  /\ ret[Client].err = ErrCookingTime
  /\ \E k \in DOMAIN recipes : k[2] > CounterStart
  /\ \E k \in DOMAIN recipes : recipes[k].cookingTime = 1

(* ======================= the two entity kinds ========================= *)

\* An id string that a potato and a recipe both have.
SharedId == <<"r", 1>>

\* Store calls on that id, of both kinds.
KindCalls ==
  {[name |-> "AddPotato", ent |-> PotatoV(SharedId, v)] : v \in Versions}
  \cup {[name |-> "UpdatePotato", id |-> SharedId,
         ent |-> PotatoV(SharedId, v)] : v \in Versions}
  \cup {[name |-> "DeletePotato", id |-> SharedId]}
  \cup {[name |-> "AddRecipe", ent |-> RecipeV(SharedId, v)] : v \in Versions}

InitKinds ==
  /\ potatoes = [id \in {<<"p", 1>>, SharedId} |-> PotatoV(id, 0)]
  /\ recipes = [id \in {SharedId} |-> RecipeV(id, 0)]
  /\ InitCommon

\* A client writing both kinds under the shared id beside the degrader
\* and the remover.
NextKinds ==
  \/ RequestFrom(Client, KindCalls)
  \/ Acquire(Client)
  \/ AddPotatoBody(Client)
  \/ PotatoLookup(Client)
  \/ UpdatePotatoBody(Client)
  \/ DeletePotatoBody(Client)
  \/ AddRecipeBody(Client)
  \/ DegraderStep
  \/ RemoverStep

SpecKinds == InitKinds /\ [][NextKinds]_vars

PotatoWrites == {"AddPotato", "UpdatePotato", "DeletePotato"}

\* C32: a step of AddPotato, UpdatePotato or DeletePotato inside the lock,
\* and every step of the degrader and of the remover, leaves the recipes
\* map as it was, and a step of AddRecipe leaves the potatoes map as it
\* was, also for an id that is a key of both maps.
C32_KindsIndependent ==
  [][/\ \A p \in Procs :
          (ph[p] \in InCS /\ ph'[p] # ph[p]) =>
            /\ call[p].name \in PotatoWrites => recipes' = recipes
            /\ call[p].name = "AddRecipe" => potatoes' = potatoes
     /\ \A t \in {Degrader, Remover} :
          (tpc'[t] # tpc[t] \/ ph'[t] # ph[t]) => recipes' = recipes]_vars

\* The degrader has made the potato of the shared id Standard and the
\* client's AddRecipe has then replaced the recipe of that id: the potato
\* is still the degraded one and the recipe the new one.
C32_Witness ==
  /\ ph[Client] = "ret"
  /\ call[Client].name = "AddRecipe"
  /\ recipes[SharedId] = RecipeV(SharedId, 1)
  /\ SharedId \in DOMAIN potatoes
  /\ potatoes[SharedId] = [PotatoV(SharedId, 0) EXCEPT !.quality = Standard]

(* ====================== sanitizing log messages ======================= *)

\* Strings are sequences of characters; these are the characters the
\* messages and the hashes are made of, by the classes of emailRegex.
Letters == {"a", "e", "f", "r", "s", "u"}

Digits == {"7"}

\* [a-zA-Z0-9._%+\-]
LocalChars == Letters \cup Digits \cup {".", "_", "%", "+", "-"}

\* [a-zA-Z0-9.\-]
DomainChars == Letters \cup Digits \cup {".", "-"}

\* The last index of the run of characters of the class that starts at
\* i, or i - 1 if there is none.
RECURSIVE RunEnd(_, _, _)
RunEnd(s, i, class) ==
  IF i > Len(s) \/ s[i] \notin class THEN i - 1
  ELSE RunEnd(s, i + 1, class)

\* The greatest of a set of indices, or 0 for the empty set.
Greatest(S) == IF S = {} THEN 0 ELSE CHOOSE x \in S : \A y \in S : y <= x

\* The index where the match of emailRegex that starts at i ends, or 0 if
\* none starts there: a run of local characters up to an "@", the longest
\* run of domain characters that leaves a "." and two letters or more,
\* and every letter that follows.
MatchEnd(s, i) ==
  LET at == RunEnd(s, i, LocalChars) + 1
      last == RunEnd(s, at + 1, DomainChars)
      dot == Greatest({d \in (at + 2)..last :
                         /\ s[d] = "."
                         /\ RunEnd(s, d + 1, Letters) >= d + 2})
  IN  IF at > i /\ at <= Len(s) /\ s[at] = "@" /\ dot # 0
        THEN RunEnd(s, dot + 1, Letters)
        ELSE 0

\* emailRegex.MatchString(message)
ContainsEmail(message) == \E i \in 1..Len(message) : MatchEnd(message, i) # 0

\* HashEmail: "user_" and the first 12 hexadecimal digits of a SHA-256
\* digest; the digest is not computed here, its digits stand for any.
HashEmail(email) ==
  <<"u", "s", "e", "r", "_">>
  \o [k \in 1..12 |-> IF (k + Len(email)) % 2 = 0 THEN "7" ELSE "f"]

\* emailRegex.ReplaceAllStringFunc(message, HashEmail) from index i on:
\* the matches are taken from left to right and do not overlap.
RECURSIVE SanitizeFrom(_, _)
SanitizeFrom(message, i) ==
  IF i > Len(message) THEN <<>>
  ELSE IF MatchEnd(message, i) # 0
    THEN HashEmail(SubSeq(message, i, MatchEnd(message, i)))
         \o SanitizeFrom(message, MatchEnd(message, i) + 1)
  ELSE <<message[i]>> \o SanitizeFrom(message, i + 1)

SanitizeLogMessage(message) == SanitizeFrom(message, 1)

\* The pieces the messages are put together from: an address, the parts
\* of one, a space and a digit.
MessageParts ==
  {<<"a", "@", "a", ".", "a", "a">>, <<"@">>, <<"a">>, <<".", "a", "a">>,
   <<" ">>, <<"7">>}

\* The most pieces a message has.
MaxParts == 4

RECURSIVE Concat(_)
Concat(parts) ==
  IF parts = <<>> THEN <<>> ELSE Head(parts) \o Concat(Tail(parts))

Messages ==
  {Concat(parts) : parts \in UNION {[1..n -> MessageParts] : n \in 0..MaxParts}}

\* A caller sanitizes a message.
Sanitizes(p) ==
  /\ Alive
  /\ ph[p] = "none"
  /\ \E message \in Messages :
       /\ call' = [call EXCEPT ![p] =
                     [name |-> "SanitizeLogMessage", message |-> message]]
       /\ ret' = [ret EXCEPT ![p] =
                    [err |-> Nil, val |-> SanitizeLogMessage(message)]]
  /\ ph' = [ph EXCEPT ![p] = "ret"]
  /\ UNCHANGED <<potatoes, recipes, mu, found, outside>>

SpecLog == InitLife /\ [][Sanitizes(Client)]_vars

\* The client's SanitizeLogMessage has returned.
Sanitized == ph[Client] = "ret" /\ call[Client].name = "SanitizeLogMessage"

\* C33: ContainsEmail finds no address in the output of
\* SanitizeLogMessage, and a message in which it finds none comes back
\* unchanged.
C33_NoEmailLeft ==
  Sanitized =>
    /\ ~ContainsEmail(ret[Client].val)
    /\ ~ContainsEmail(call[Client].message)
         => ret[Client].val = call[Client].message

\* The client's request, in the state or the next, is an UpdatePotato
\* with a malformed entity.
BadUpdate(c) ==
  /\ "svc" \in DOMAIN c
  /\ c.svc = "UpdatePotato"
  /\ Malformed(c.arg)

\* C34: the service's UpdatePotato with an invalid entity returns the
\* validation error, never ErrNotFound, whether the store holds the key
\* or not; the call takes no lock and reads and writes nothing of the
\* store, at the step that makes it and afterwards.
C34_ValidationFirst ==
  /\ [][(BadUpdate(call'[Client]) /\ call'[Client] # call[Client]) =>
          /\ ph'[Client] = "done"
          /\ ret'[Client].err \in ValidationErrors
          /\ mu' = mu
          /\ potatoes' = potatoes /\ recipes' = recipes]_vars
  /\ [](BadUpdate(call[Client]) =>
          /\ ph[Client] = "done"
          /\ call[Client].name = "none"
          /\ ret[Client].err # ErrNotFound)

\* An UpdatePotato with a negative price was refused for its price while
\* the store holds no potato at all, the remover having sold both, so
\* that its key is absent.
C34_Witness ==
  /\ BadUpdate(call[Client])
  /\ ph[Client] = "done"
  /\ call[Client].arg.price < 0
  /\ ret[Client].err = ErrInvalidPrice
  /\ potatoes = EmptyMap
  /\ store0 # EmptyMap

\* C35: every potato is stored under the key that its own ID field
\* holds, whatever CreatePotato, UpdatePotato and DeletePotato calls of
\* the service, with entities that pass validation, have been made.
C35_KeyIsId == \A k \in DOMAIN potatoes : potatoes[k].id = k

\* How many grades below Premium the quality is.
GradesDown(quality) ==
  IF quality = Premium THEN 0 ELSE IF quality = Standard THEN 1 ELSE 2

\* The store before pass n of the degrader.
BeforePass(n) == IF n = 1 THEN store0 ELSE passes[n - 1]

\* C36: a degrader pass over a store no one else writes takes no item
\* down by more than one grade and changes nothing but the quality; a
\* Premium item older than 60 days is Standard after the first pass and
\* Economy after the second.
C36_OneGradePerPass ==
  /\ \A n \in 1..Len(passes) : \A k \in DOMAIN store0 :
       /\ k \in DOMAIN passes[n]
       /\ [passes[n][k] EXCEPT !.quality = BeforePass(n)[k].quality]
            = BeforePass(n)[k]
       /\ GradesDown(passes[n][k].quality)
            - GradesDown(BeforePass(n)[k].quality) \in {0, 1}
  /\ \A k \in DOMAIN store0 :
       (store0[k].quality = Premium /\ AgeOf(store0[k]) > 60) =>
         /\ Len(passes) >= 1 => passes[1][k].quality = Standard
         /\ Len(passes) >= 2 => passes[2][k].quality = Economy

\* Two passes are over a store that held a Premium item of age 61: it
\* was Standard after the first and is Economy after the second.
C36_Witness ==
  /\ Len(passes) = 2
  /\ \E k \in DOMAIN store0 :
       /\ store0[k].quality = Premium /\ AgeOf(store0[k]) = 61
       /\ passes[1][k].quality = Standard
       /\ passes[2][k].quality = Economy

\* C37: GetInventorySummary returns one ByVariety group for each variety
\* of its snapshot and no other, each with the number of the snapshot's
\* items of that variety as TotalQuantity, and these quantities add up
\* to TotalPotatoes, also when the store has been written since the
\* snapshot was taken.
C37_GroupsPartition ==
  Reported("GetInventorySummary") =>
    LET slice == ret[Reporter].val
        groups == ret[Reporter].out.byVariety
    IN  /\ {groups[i].variety : i \in 1..Len(groups)} = VarietiesOf(slice)
        /\ Len(groups) = Cardinality(VarietiesOf(slice))
        /\ \A i \in 1..Len(groups) :
             groups[i].totalQuantity
               = Len(FilterVariety(slice, groups[i].variety))
        /\ SumField(groups, "totalQuantity")
             = ret[Reporter].out.totalPotatoes

\* A summary of two groups has returned, and the client has deleted a
\* potato of the snapshot since.
C37_Witness ==
  /\ Reported("GetInventorySummary")
  /\ Len(ret[Reporter].out.byVariety) = 2
  /\ \E i \in 1..Len(ret[Reporter].val) :
       ret[Reporter].val[i].id \notin DOMAIN potatoes
  /\ ph[Client] = "done"
  /\ call[Client].svc = "DeletePotato"

(* ======================== one remover pass ============================ *)

\* A write request of the service beside the remover.
NextSale ==
  \/ ServiceRequest(Client, WriteRequests)
  \/ Acquire(Client)
  \/ AddPotatoBody(Client)
  \/ PotatoLookup(Client)
  \/ UpdatePotatoBody(Client)
  \/ DeletePotatoBody(Client)
  \/ ServiceReturn(Client)
  \/ RemoverStep

SpecSale == InitLife /\ [][NextSale]_vars

\* The remover makes a delete call in this step.
RemoverCalls ==
  /\ tpc[Remover] = "loop"
  /\ tpc'[Remover] = "call"

\* C38: a remover pass on an empty snapshot makes no delete call; a pass
\* on a snapshot of n items makes one call for each of its first
\* numToRemove items, numToRemove being at least 1 and at most 3 and n,
\* and these calls name ids of the snapshot that differ from one another.
C38_FewDistinctDeletes ==
  /\ [][RemoverCalls =>
          /\ snap[Remover] # <<>>
          /\ idx[Remover] \in 1..nrem
          /\ call'[Remover] = [name |-> "DeletePotato",
                               id |-> snap[Remover][idx[Remover]].id]]_vars
  /\ [][idx'[Remover] # idx[Remover] =>
          \/ idx'[Remover] = idx[Remover] + 1
          \/ tpc[Remover] = "fetch"]_vars
  /\ [](tpc[Remover] \in {"loop", "call"} =>
          /\ nrem \in 1..3
          /\ nrem <= Len(snap[Remover])
          /\ \A i, j \in 1..nrem :
               i # j => snap[Remover][i].id # snap[Remover][j].id)

(* ============================ the reads =============================== *)

\* The requests of the service that read: aggregates, freshness and
\* recommendation.
ReadRequests == AggregateRequests \cup QueryRequests

\* A client of the reading service methods and a caller of the store's
\* reads, beside the remover.
NextReads ==
  \/ ServiceRequest(Client, ReadRequests)
  \/ Acquire(Client)
  \/ GetPotatoBody(Client)
  \/ GetAllPotatoesBody(Client)
  \/ GetRecipesByVarietyBody(Client)
  \/ ServiceReturn(Client)
  \/ NextRequest(Client)
  \/ RequestFrom(Reporter, ReadCalls)
  \/ Acquire(Reporter)
  \/ GetPotatoBody(Reporter)
  \/ GetAllPotatoesBody(Reporter)
  \/ GetPotatoesByVarietyBody(Reporter)
  \/ GetRecipeBody(Reporter)
  \/ GetAllRecipesBody(Reporter)
  \/ GetRecipesByVarietyBody(Reporter)
  \/ RemoverStep

SpecReads == InitLife /\ [][NextReads]_vars

\* Process p takes a step of a read in this step: of one of the six
\* reads of the store, or of the service method that made it.
ReadStep(p) ==
  /\ ph'[p] # ph[p]
  /\ call[p].name \in ReaderCalls \/ call'[p].name \in ReaderCalls

\* C39: no step of GetPotato, GetAllPotatoes, GetPotatoesByVariety,
\* GetRecipe, GetAllRecipes or GetRecipesByVariety, nor of
\* RecommendRecipe, GetInventorySummary, GetAnalytics or the freshness
\* check on top of them, changes the potatoes map or the recipes map.
C39_ReadsChangeNothing ==
  [][\A p \in Procs :
       ReadStep(p) => potatoes' = potatoes /\ recipes' = recipes]_vars

\* A recommendation has been answered and a GetAllPotatoes has returned
\* both potatoes, and the store is the one of the start.
C39_Witness ==
  /\ ph[Client] = "done"
  /\ call[Client].svc = "RecommendRecipe"
  /\ ret[Client].err = Nil
  /\ ph[Reporter] = "ret"
  /\ call[Reporter].name = "GetAllPotatoes"
  /\ Len(ret[Reporter].val) = 2
  /\ potatoes = store0
  /\ recipes = [id \in RecipeIds |-> RecipeV(id, 0)]

====
